---- MODULE Spec2Model ----
(***************************************************************************)
(* Model of src/main.py (Slack bot that creates Jira issues with an LLM):  *)
(*   - the Jira client: JiraIntegration.__init__, criar_tarefa,            *)
(*     criar_subtask, with the urllib3 Retry policy mounted on the session *)
(*   - the LLM JSON extractor of AITaskGenerator.generate_tasks_from_prompt*)
(*   - the markdown converter JiraIntegration._parse_description           *)
(* Texts are sequences of one-character tokens.  Characters that cannot be *)
(* written inside a TLA+ string are named: "dq" is the double quote, "bs"  *)
(* the backslash, "nl" the newline, "bt" the backtick, "ff" the form feed  *)
(* (an ASCII control character), "bu" the bullet U+2022, "s2" the          *)
(* superscript two U+00B2.                                                 *)
(***************************************************************************)
EXTENDS Integers, Sequences, FiniteSets, TLC

VARIABLES
    \* ---- Jira client (JiraIntegration)
    subtask_type,       \* self.subtask_type
    alternatives,       \* self._subtask_type_alternatives
    op,                 \* the method being executed: "none", "criar_tarefa", "criar_subtask"
    pc,                 \* "idle", "post" (inside session.post), "done", "raised"
    idx,                \* loop index of criar_subtask (1-based)
    issuetype,          \* payload["fields"]["issuetype"]["name"]
    total,              \* Retry.total left for the session.post in progress
    posts,              \* one record per session.post call made by this call
    result,             \* the returned dict
    escaped,            \* the exception that escaped to the caller, "none" if none
    payload,            \* the dict payload["fields"] of the call in progress
    sent_json,          \* history: payload["fields"] as each session.post call was given it
    \* ---- LLM JSON extractor (AITaskGenerator.generate_tasks_from_prompt)
    lead,               \* the prose the completion text starts with
    inner,              \* the payload text inside the completion
    trail,              \* the prose the completion text ends with
    fenced,             \* whether inner is wrapped in fence marker lines
    content,            \* result['choices'][0]['message']['content']
    raw,                \* raw, after remove_code_fences and sanitize_control_chars
    segment,            \* what extract_braced_json returned, NoSegment if not called
    stage,              \* which parse produced parsed: "direct", "scan", "fallback", "none"
    ai_result,          \* the dict generate_tasks_from_prompt returns
    alone,              \* the dict returned for the completion text inner alone
    tried,              \* history: the parse attempts made on raw, in order
    fence_shape,        \* how the completion text fences inner: one of FenceShapes
    scan_trace,         \* history: the scan's locals after each character it read
    \* ---- markdown converter (JiraIntegration._parse_description)
    description,        \* the argument
    cpc,                \* "idle", "sections" (outer loop), "lines" (inner loop), "done",
                        \* "raised" (an exception left the function)
    sections,           \* description.split('\n\n')
    si,                 \* index of the section the outer loop is at
    lines,              \* section.split('\n')
    li,                 \* index of the line the inner loop is at
    content_blocks,     \* the blocks produced so far; the result when cpc = "done"
    paragraph_content,  \* the pending paragraph's runs
    srclines,           \* history: the stripped lines the inner loop has read, in order
    block_line,         \* history: for each block, the index in srclines of its first line
    para_line,          \* history: the index in srclines of the pending paragraph's first line
    \* ---- /create-task (handle_create_task_command)
    hpc,                \* "idle", "ai", "story", "subtasks", "done", "raised"
    command_text,       \* command['text'] as Slack delivered it
    ai_calls,           \* history: the prompts generate_tasks_from_prompt was called with
    tasks_data,         \* ai_result['data'], the JSON value the extractor returned
    subtasks_data,      \* tasks_data.get('subtasks', [])
    story_key,          \* story_result['key'], 0 before the story exists
    hidx,               \* idx of the loop over subtasks_data
    created_subtasks,   \* the list the final message is built from
    responses,          \* the messages passed to respond(), in order
    calls,              \* history: the create calls made on jira, in order, with their outcome
    tracker,            \* the issues the tracker holds, in creation order
    \* ---- concurrent requests on the module-level client jira
    threads             \* per request: the locals of its create call and its history

clientVars == <<subtask_type, alternatives, op, pc, idx, issuetype, total, posts,
                result, escaped, payload, sent_json>>

extractVars == <<lead, inner, trail, fenced, content, raw, segment, stage, ai_result, alone,
                 tried, fence_shape, scan_trace>>

convertVars == <<description, cpc, sections, si, lines, li, content_blocks,
                 paragraph_content, srclines, block_line, para_line>>

handlerVars == <<hpc, command_text, ai_calls, tasks_data, subtasks_data, story_key, hidx, created_subtasks, responses,
                 calls, tracker>>

vars == <<clientVars, extractVars, convertVars, handlerVars, threads>>

notClientVars == <<extractVars, convertVars, handlerVars, threads>>

notExtractVars == <<clientVars, convertVars, handlerVars, threads>>

notConvertVars == <<clientVars, extractVars, handlerVars, threads>>

notHandlerVars == <<clientVars, extractVars, convertVars, threads>>

\* what a step of a concurrent request leaves alone: the locals of the
\* single-call model, and everything outside the client
notThreadVars == <<op, pc, idx, issuetype, total, posts, result, escaped,
                   payload, sent_json, extractVars, convertVars, handlerVars>>

(***************************************************************************)
(* Jira client                                                             *)
(***************************************************************************)

\* Retry(total=5, ...)
RetryTotal == 5

\* Retry(status_forcelist=[429, 500, 502, 503, 504])
StatusForcelist == {429, 500, 502, 503, 504}

\* Values of JIRA_SUBTASK_TYPE the model constructs the client with
\* (the default is 'Sub-task').
SubtaskTypeNames == {"Sub-task", "Subtask", "SUB-TASK", "subtask", "Subtarefa"}

\* str.lower() on the configured names
Lower(s) ==
    CASE s = "Sub-task" -> "sub-task"
      [] s = "SUB-TASK" -> "sub-task"
      [] s = "Subtask"  -> "subtask"
      [] s = "subtask"  -> "subtask"
      [] s = "Subtarefa" -> "subtarefa"
      [] OTHER -> s

SeqRange(s) == {s[i] : i \in DOMAIN s}

\* __init__: the fallback list of sub-task type names
SubtaskTypeAlternativesNoAlt(t) == <<t>>

SubtaskTypeAlternatives(t) ==
    LET a0 == <<t>>
        a1 == IF Lower(t) = "sub-task"
                 /\ "subtask" \notin {Lower(x) : x \in SeqRange(a0)}
              THEN Append(a0, "Subtask") ELSE a0
        a2 == IF Lower(t) = "subtask"
                 /\ "sub-task" \notin {Lower(x) : x \in SeqRange(a1)}
              THEN Append(a1, "Sub-task") ELSE a1
    IN a2

\* What the tracker (or the network) answers to one HTTP request.  status 0
\* stands for a network failure (connection error, timeout): no response.
\* body is what response.json() will find: "key" a JSON object with a key
\* field, "nokey" JSON without it, "notjson" a body that is not JSON, "err"
\* the error body of a non-2xx answer.
WireAnswers ==
    [status : {201}, body : {"key", "nokey", "notjson"}]
        \cup [status : {400, 404, 429, 503}, body : {"err"}]
        \cup [status : {0}, body : {"none"}]

NoResult == [none |-> TRUE]

IssueKey == "PROJ-1"

\* urllib3 Retry.is_retry / connection errors: the answers the adapter
\* re-sends the request for (allowed_methods includes POST)
IsTransientNo503(a) == a.status = 0 \/ a.status \in (StatusForcelist \ {503})

\* the retry policy with 404 added to the status_forcelist
IsTransientWith404(a) == a.status = 0 \/ a.status \in (StatusForcelist \cup {404})

IsTransient(a) == a.status = 0 \/ a.status \in StatusForcelist

\* Retry.is_exhausted after one more increment(): total - 1 < 0
RetryExhaustedLate(t) == t - 1 < -1

RetryExhausted(t) == t - 1 < 0

\* The outcome of session.post once the adapter stops re-sending:
\* "response" (a Response object is returned) or "exception" (RetryError,
\* ConnectionError: a RequestException whose response is None)
PostOutcome(a) == IF IsTransient(a) THEN "exception" ELSE "response"

Success == [success |-> TRUE, key |-> IssueKey, url |-> <<"browse", IssueKey>>]

\* the failure dict with the key and url fields of an earlier success left in
FailureKeepsKey(error, details) ==
    [success |-> FALSE, error |-> error, details |-> details,
     key |-> IssueKey, url |-> <<"browse", IssueKey>>]

Failure(error, details) == [success |-> FALSE, error |-> error, details |-> details]

\* str(e) of the RequestException raised for answer a
ErrorOf(a) ==
    CASE a.status = 0 -> "ConnectionError"
      [] a.status \in StatusForcelist -> "RetryError"
      [] a.status >= 400 -> "HTTPError"
      [] OTHER -> "JSONDecodeError"

\* e.response.text when the exception carries a response, else ""
DetailsOf(a) == IF PostOutcome(a) = "response" /\ a.status >= 400 THEN a.body ELSE ""

\* self.project_key, JIRA_PROJECT_KEY
ProjectKey == "PROJ"

\* the arguments the model calls criar_tarefa and criar_subtask with
ParentKeys == {"PROJ-1", "PROJ-2"}

Summaries == {"s1", "s2"}

CallDescriptions == {"", "d1"}

NoPayload == [none |-> TRUE]

\* lines 252 and 305: the blocks _parse_description makes of the description,
\* computed once per call (the conversion itself is the converter's model)
ContentBlocksOf(d) == [parsed |-> d]

\* lines 254-267: payload["fields"] of criar_tarefa (priority "Medium", no
\* labels)
TarefaPayload(summary, d, issue_type) ==
    [project |-> [key |-> ProjectKey],
     summary |-> summary,
     description |-> [type |-> "doc", version |-> 1, content |-> ContentBlocksOf(d)],
     issuetype |-> [name |-> issue_type],
     priority |-> [name |-> "Medium"]]

\* lines 307-320: payload["fields"] of criar_subtask
SubtaskPayload(parent_key, summary, d) ==
    [project |-> [key |-> ProjectKey],
     parent |-> [key |-> parent_key],
     summary |-> summary,
     description |-> [type |-> "doc", version |-> 1, content |-> ContentBlocksOf(d)],
     issuetype |-> [name |-> subtask_type]]

\* line 324 with the parent dropped from the payload of the alternate names
WithTypeNameNoParent(p, name) ==
    [p EXCEPT !.issuetype.name = name,
              !.parent.key = IF name = subtask_type THEN @ ELSE ""]

\* line 324: payload["fields"]["issuetype"]["name"] = subtask_type_name
WithTypeName(p, name) == [p EXCEPT !.issuetype.name = name]

\* A new session.post with the payload's current type name
NewPost(type) == [type |-> type, sends |-> 0, all503 |-> TRUE,
                  final |-> "pending", last |-> [status |-> 0, body |-> "none"]]

\* The record of the post in progress after one more answer
Sent(p, a, final) == [p EXCEPT !.sends = @ + 1,
                               !.all503 = @ /\ a.status = 503,
                               !.final = final,
                               !.last = a]

ClientInit ==
    /\ subtask_type \in SubtaskTypeNames
    /\ alternatives = SubtaskTypeAlternatives(subtask_type)
    /\ op = "none"
    /\ pc = "idle"
    /\ idx = 0
    /\ issuetype = ""
    /\ total = 0
    /\ posts = <<>>
    /\ result = NoResult
    /\ escaped = "none"
    /\ payload = NoPayload
    /\ sent_json = <<>>

\* criar_tarefa up to its session.post
CallCriarTarefa ==
    /\ pc = "idle"
    /\ \E issue_type \in {"Task", "Story"}, summary \in Summaries, d \in CallDescriptions :
        /\ issuetype' = issue_type
        /\ posts' = <<NewPost(issue_type)>>
        /\ payload' = TarefaPayload(summary, d, issue_type)
        /\ sent_json' = <<payload'>>
    /\ op' = "criar_tarefa"
    /\ pc' = "post"
    /\ idx' = 0
    /\ total' = RetryTotal
    /\ UNCHANGED <<subtask_type, alternatives, result, escaped>>
    /\ UNCHANGED notClientVars

\* criar_subtask up to the session.post of the first loop iteration
CallCriarSubtask ==
    /\ pc = "idle"
    /\ op' = "criar_subtask"
    /\ pc' = "post"
    /\ idx' = 1
    /\ issuetype' = alternatives[1]
    /\ posts' = <<NewPost(alternatives[1])>>
    /\ \E parent_key \in ParentKeys, summary \in Summaries, d \in CallDescriptions :
        payload' = WithTypeName(SubtaskPayload(parent_key, summary, d), alternatives[1])
    /\ sent_json' = <<payload'>>
    /\ total' = RetryTotal
    /\ UNCHANGED <<subtask_type, alternatives, result, escaped>>
    /\ UNCHANGED notClientVars

\* Inside session.post: a transient answer with retries left; the adapter
\* sleeps and sends the same request again
Resend ==
    /\ pc = "post"
    /\ \E a \in WireAnswers :
        /\ IsTransient(a)
        /\ ~RetryExhausted(total)
        /\ posts' = [posts EXCEPT ![Len(posts)] = Sent(@, a, "pending")]
    /\ total' = total - 1
    /\ UNCHANGED <<subtask_type, alternatives, op, pc, idx, issuetype, result, escaped,
                   payload, sent_json>>
    /\ UNCHANGED notClientVars

\* The rest of criar_tarefa once session.post ended with answer a
TarefaReturn(a) ==
    /\ op = "criar_tarefa"
    /\ posts' = [posts EXCEPT ![Len(posts)] = Sent(@, a, PostOutcome(a))]
    /\ IF PostOutcome(a) = "exception" \/ a.status >= 400 \/ a.body = "notjson"
       THEN /\ result' = Failure(ErrorOf(a), DetailsOf(a))
            /\ pc' = "done"
            /\ escaped' = escaped
       ELSE IF a.body = "nokey"
       THEN /\ result' = result
            /\ pc' = "raised"
            /\ escaped' = "KeyError"
       ELSE /\ result' = Success
            /\ pc' = "done"
            /\ escaped' = escaped
    /\ UNCHANGED <<subtask_type, alternatives, op, idx, issuetype, total, payload, sent_json>>

\* criar_subtask, line 334: the test that sends the loop to the next name
\* while a Response is in hand
TriesNextOn400Always(a, i) == a.status = 400

TriesNextOn400(a, i) == a.status = 400 /\ i < Len(alternatives)

\* criar_subtask, lines 345-353: whether the except clause re-raises
ReraisesOnlyLast(a, i) == i = Len(alternatives)

Reraises(a, i) ==
    \/ i = Len(alternatives)
    \/ PostOutcome(a) = "response" /\ a.status >= 400 /\ a.status # 400

\* The rest of the loop body of criar_subtask once session.post ended with
\* answer a, up to the next session.post or the return
SubtaskReturn(a) ==
    /\ op = "criar_subtask"
    /\ LET ended == [posts EXCEPT ![Len(posts)] = Sent(@, a, PostOutcome(a))]
           next == /\ idx' = idx + 1
                   /\ issuetype' = alternatives[idx + 1]
                   /\ posts' = Append(ended, NewPost(alternatives[idx + 1]))
                   /\ payload' = WithTypeName(payload, alternatives[idx + 1])
                   /\ sent_json' = Append(sent_json, payload')
                   /\ total' = RetryTotal
                   /\ pc' = "post"
                   /\ UNCHANGED <<result, escaped>>
           fail == /\ result' = Failure(ErrorOf(a), DetailsOf(a))
                   /\ posts' = ended
                   /\ pc' = "done"
                   /\ UNCHANGED <<idx, issuetype, total, escaped, payload, sent_json>>
       IN IF PostOutcome(a) = "response" /\ TriesNextOn400(a, idx)
          THEN next
          ELSE IF PostOutcome(a) = "exception" \/ a.status >= 400 \/ a.body = "notjson"
          THEN IF Reraises(a, idx) THEN fail ELSE next
          ELSE IF a.body = "nokey"
          THEN /\ escaped' = "KeyError"
               /\ posts' = ended
               /\ pc' = "raised"
               /\ UNCHANGED <<idx, issuetype, total, result, payload, sent_json>>
          ELSE /\ result' = Success
               /\ posts' = ended
               /\ pc' = "done"
               /\ UNCHANGED <<idx, issuetype, total, escaped, payload, sent_json>>
    /\ UNCHANGED <<subtask_type, alternatives, op>>

\* session.post ends: a Response that is not retried, or the answer that
\* exhausts the retries
PostEnds ==
    /\ pc = "post"
    /\ \E a \in WireAnswers :
        /\ IsTransient(a) => RetryExhausted(total)
        /\ \/ TarefaReturn(a)
           \/ SubtaskReturn(a)
    /\ UNCHANGED notClientVars

ClientNext == CallCriarTarefa \/ CallCriarSubtask \/ Resend \/ PostEnds

(***************************************************************************)
(* LLM JSON extractor                                                      *)
(***************************************************************************)

\* Bounds of the completion texts the model feeds the extractor
MaxLead == 1

MaxTrail == 1

MaxStr == 1

\* The one element of a singleton set.  Only({e(x) : x \in {v}}) evaluates
\* v once and names the value x in e.
Only(S) == CHOOSE x \in S : TRUE

SeqsUpTo(S, n) == UNION {[1..k -> S] : k \in 0..n}

RECURSIVE Concat(_)
Concat(ss) == IF ss = <<>> THEN <<>> ELSE Head(ss) \o Concat(Tail(ss))

\* ---- Python string helpers -------------------------------------------

\* str.isspace() on the model's characters (the form feed is whitespace)
IsSpace(c) == c \in {" ", "nl", "ff"}

RECURSIVE LStrip(_)
LStrip(t) == IF t # <<>> /\ IsSpace(Head(t)) THEN LStrip(Tail(t)) ELSE t

RECURSIVE RStrip(_)
RStrip(t) ==
    IF t # <<>> /\ IsSpace(t[Len(t)]) THEN RStrip(SubSeq(t, 1, Len(t) - 1)) ELSE t

\* str.strip()
Strip(t) == RStrip(LStrip(t))

\* str.startswith(p)
StartsWith(t, p) == Len(t) >= Len(p) /\ SubSeq(t, 1, Len(p)) = p

\* str.endswith(p)
EndsWith(t, p) == Len(t) >= Len(p) /\ SubSeq(t, Len(t) - Len(p) + 1, Len(t)) = p

\* str.split(sep) for a separator of one or two characters
RECURSIVE SplitAcc(_, _, _, _)
SplitAcc(t, sep, cur, acc) ==
    IF t = <<>> THEN Append(acc, cur)
    ELSE IF StartsWith(t, sep)
    THEN SplitAcc(SubSeq(t, Len(sep) + 1, Len(t)), sep, <<>>, Append(acc, cur))
    ELSE SplitAcc(Tail(t), sep, Append(cur, Head(t)), acc)

Split(t, sep) == SplitAcc(t, sep, <<>>, <<>>)

\* sep.join(parts)
RECURSIVE Join(_, _)
Join(parts, sep) ==
    IF parts = <<>> THEN <<>>
    ELSE IF Len(parts) = 1 THEN parts[1]
    ELSE parts[1] \o sep \o Join(Tail(parts), sep)

\* str.find(c) and str.rfind(c) as 1-based indices, 0 when absent
Find(t, c) ==
    IF \E i \in DOMAIN t : t[i] = c
    THEN CHOOSE i \in DOMAIN t : t[i] = c /\ \A j \in 1..(i - 1) : t[j] # c
    ELSE 0

RFind(t, c) ==
    IF \E i \in DOMAIN t : t[i] = c
    THEN CHOOSE i \in DOMAIN t : t[i] = c /\ \A j \in (i + 1)..Len(t) : t[j] # c
    ELSE 0

Fence == <<"bt", "bt", "bt">>

\* ---- remove_code_fences ------------------------------------------------

\* the loop of lines 113-116: the last line that starts with the marker,
\* 0 for None (1-based: Python's fence_end_idx > 0 is index > 1 here)
FenceEndIdx(fence_lines) ==
    IF \E i \in DOMAIN fence_lines : StartsWith(Strip(fence_lines[i]), Fence)
    THEN CHOOSE i \in DOMAIN fence_lines :
            /\ StartsWith(Strip(fence_lines[i]), Fence)
            /\ \A j \in (i + 1)..Len(fence_lines) : ~StartsWith(Strip(fence_lines[j]), Fence)
    ELSE 0

remove_code_fences(text) ==
    Only({IF StartsWith(t, Fence)
          THEN Only({Only({IF fence_end_idx > 1
                           THEN Strip(Join(SubSeq(fence_lines, 2, fence_end_idx - 1), <<"nl">>))
                           ELSE t : fence_end_idx \in {FenceEndIdx(fence_lines)}})
                     : fence_lines \in {Split(t, <<"nl">>)}})
          ELSE t : t \in {Strip(text)}})

\* ---- sanitize_control_chars --------------------------------------------

\* [\x00-\x08\x0B\x0C\x0E-\x1F] among the model's characters
IsStrippedControl(c) == c = "ff"

sanitize_control_chars(text) == SelectSeq(text, LAMBDA c : ~IsStrippedControl(c))

\* ---- extract_braced_json -----------------------------------------------

ScanInit == [in_str |-> FALSE, esc |-> FALSE, depth |-> 0, start_idx |-> 0, ret |-> 0]

\* one iteration of the for loop, on character ch at (1-based) index i;
\* ret is the index of the closing brace once the function has returned
ScanStepNoStrings(st, ch, i) ==
    IF ch = "{"
    THEN [st EXCEPT !.depth = @ + 1,
                    !.start_idx = IF st.depth = 0 THEN i ELSE @]
    ELSE IF ch = "}" /\ st.depth > 0
    THEN [st EXCEPT !.depth = @ - 1,
                    !.ret = IF st.depth = 1 /\ st.start_idx # 0 THEN i ELSE 0]
    ELSE st

\* one iteration of the for loop that takes a backslash inside a string
\* for an ordinary character
ScanStepNoEscape(st, ch, i) ==
    IF st.in_str
    THEN IF ch = "dq" THEN [st EXCEPT !.in_str = FALSE] ELSE st
    ELSE IF ch = "dq" THEN [st EXCEPT !.in_str = TRUE]
         ELSE IF ch = "{"
         THEN [st EXCEPT !.depth = @ + 1,
                         !.start_idx = IF st.depth = 0 THEN i ELSE @]
         ELSE IF ch = "}" /\ st.depth > 0
         THEN [st EXCEPT !.depth = @ - 1,
                         !.ret = IF st.depth = 1 /\ st.start_idx # 0 THEN i ELSE 0]
         ELSE st

ScanStep(st, ch, i) ==
    IF st.in_str
    THEN IF st.esc THEN [st EXCEPT !.esc = FALSE]
         ELSE IF ch = "bs" THEN [st EXCEPT !.esc = TRUE]
         ELSE IF ch = "dq" THEN [st EXCEPT !.in_str = FALSE]
         ELSE st
    ELSE IF ch = "dq" THEN [st EXCEPT !.in_str = TRUE]
         ELSE IF ch = "{"
         THEN [st EXCEPT !.depth = @ + 1,
                         !.start_idx = IF st.depth = 0 THEN i ELSE @]
         ELSE IF ch = "}" /\ st.depth > 0
         THEN [st EXCEPT !.depth = @ - 1,
                         !.ret = IF st.depth = 1 /\ st.start_idx # 0 THEN i ELSE 0]
         ELSE st

\* the locals after each iteration of the for loop, up to the return
RECURSIVE ScanTrace(_, _, _, _)
ScanTrace(s, i, st, acc) ==
    IF st.ret # 0 \/ i > Len(s) THEN acc
    ELSE ScanTrace(s, i + 1, ScanStep(st, s[i], i), Append(acc, ScanStep(st, s[i], i)))

RECURSIVE ScanFrom(_, _, _)
ScanFrom(s, i, st) ==
    IF st.ret # 0 \/ i > Len(s) THEN st
    ELSE ScanFrom(s, i + 1, ScanStep(st, s[i], i))

NoSegment == [found |-> FALSE, text |-> <<>>]

\* returns the segment, or NoSegment for None
extract_braced_json(text) ==
    Only({IF st.ret # 0
          THEN [found |-> TRUE, text |-> SubSeq(text, st.start_idx, st.ret)]
          ELSE NoSegment : st \in {ScanFrom(text, 1, ScanInit)}})

\* ---- json.loads on the model's characters ------------------------------
\* Characters: { } dq bs : , a 1 n u l space nl bt ff.  On these the JSON
\* values are objects, strings (escapes: bs dq, bs bs), integers 1, 11, ...
\* and null

JsonWs == {" ", "nl"}

ParseFail == [ok |-> FALSE, val |-> [t |-> "none"], pos |-> 0]

ParseOk(v, p) == [ok |-> TRUE, val |-> v, pos |-> p]

\* the literal null, which json.loads turns into None
NullText == <<"n", "u", "l", "l">>

JsonNull == [t |-> "null"]

RECURSIVE SkipWs(_, _)
SkipWs(s, i) == IF i <= Len(s) /\ s[i] \in JsonWs THEN SkipWs(s, i + 1) ELSE i

\* i is the index after the opening quote
RECURSIVE ParseString(_, _, _)
ParseString(s, i, acc) ==
    IF i > Len(s) THEN ParseFail
    ELSE IF s[i] = "dq" THEN ParseOk([t |-> "str", s |-> acc], i + 1)
    ELSE IF s[i] = "bs"
    THEN IF i + 1 <= Len(s) /\ s[i + 1] \in {"dq", "bs"}
         THEN ParseString(s, i + 2, Append(acc, s[i + 1]))
         ELSE ParseFail
    ELSE IF s[i] \in {"nl", "ff"} THEN ParseFail
    ELSE ParseString(s, i + 1, Append(acc, s[i]))

RECURSIVE ParseNumber(_, _, _)
ParseNumber(s, i, acc) ==
    IF i <= Len(s) /\ s[i] = "1" THEN ParseNumber(s, i + 1, Append(acc, "1"))
    ELSE ParseOk([t |-> "num", n |-> acc], i)

RECURSIVE ParseValue(_, _)
RECURSIVE ParseMembers(_, _, _)
RECURSIVE AfterMember(_, _, _)
RECURSIVE MemberValue(_, _, _, _)

\* i is the index of the first character of the value
ParseValue(s, i) ==
    IF i > Len(s) THEN ParseFail
    ELSE IF s[i] = "dq" THEN ParseString(s, i + 1, <<>>)
    ELSE IF s[i] = "1" THEN ParseNumber(s, i, <<>>)
    ELSE IF i + 3 <= Len(s) /\ SubSeq(s, i, i + 3) = NullText THEN ParseOk(JsonNull, i + 4)
    ELSE IF s[i] = "{"
    THEN LET j == SkipWs(s, i + 1)
         IN IF j <= Len(s) /\ s[j] = "}"
            THEN ParseOk([t |-> "obj", m |-> <<>>], j + 1)
            ELSE ParseMembers(s, j, <<>>)
    ELSE ParseFail

\* what follows a member whose value ended before index e (whitespace
\* skipped); m2 the pairs so far, a later duplicate key replacing an earlier
AfterMember(s, e, m2) ==
    IF e > Len(s) THEN ParseFail
    ELSE IF s[e] = "}" THEN ParseOk([t |-> "obj", m |-> m2], e + 1)
    ELSE IF s[e] = "," THEN ParseMembers(s, SkipWs(s, e + 1), m2)
    ELSE ParseFail

\* the member's value, after key k and the colon at index c
MemberValue(s, c, k, m) ==
    IF c > Len(s) \/ s[c] # ":" THEN ParseFail
    ELSE Only({IF ~v.ok THEN ParseFail
               ELSE AfterMember(s, SkipWs(s, v.pos), (k.val.s :> v.val) @@ m)
               : v \in {ParseValue(s, SkipWs(s, c + 1))}})

\* i is the index where a member's key must start; m the pairs so far
ParseMembers(s, i, m) ==
    IF i > Len(s) \/ s[i] # "dq" THEN ParseFail
    ELSE Only({IF ~k.ok THEN ParseFail
               ELSE MemberValue(s, SkipWs(s, k.pos), k, m)
               : k \in {ParseString(s, i + 1, <<>>)}})

\* json.loads(text): ok is FALSE where it raises JSONDecodeError
JsonLoads(text) ==
    Only({IF r.ok /\ SkipWs(text, r.pos) = Len(text) + 1 THEN r ELSE ParseFail
          : r \in {ParseValue(text, SkipWs(text, 1))}})

\* ---- generate_tasks_from_prompt, lines 155-209 --------------------------

\* lines 170-179: the slice from the first { to the last }
FallbackParse(r, seg) ==
    Only({IF start # 0 /\ end # 0 /\ end > start
          THEN Only({IF cleaned.ok
                     THEN [parsed |-> cleaned, segment |-> seg, stage |-> "fallback",
                           tried |-> <<"fallback">>]
                     ELSE [parsed |-> ParseFail, segment |-> seg, stage |-> "none",
                           tried |-> <<"fallback">>]
                     : cleaned \in {JsonLoads(SubSeq(r, start, end))}})
          ELSE [parsed |-> ParseFail, segment |-> seg, stage |-> "none",
                tried |-> <<"fallback">>]
          : start \in {Find(r, "{")}, end \in {RFind(r, "}")}})

\* the attempts of a with the attempt made before them
After(first, a) == [a EXCEPT !.tried = <<first>> \o @]

\* lines 163-179 without the balanced-object scan
ScanParseSkipped(r) == FallbackParse(r, NoSegment)

\* lines 163-169: the balanced-object slice
ScanParse(r) ==
    Only({IF seg.found
          THEN Only({IF scanned.ok
                     THEN [parsed |-> scanned, segment |-> seg, stage |-> "scan",
                           tried |-> <<"scan">>]
                     ELSE After("scan", FallbackParse(r, seg))
                     : scanned \in {JsonLoads(seg.text)}})
          ELSE After("scan", FallbackParse(r, seg))
          : seg \in {extract_braced_json(r)}})

\* lines 158-162 alone: the direct parse and nothing after it
ParseAttemptsDirectOnly(r) ==
    Only({IF direct.ok
          THEN [parsed |-> direct, segment |-> NoSegment, stage |-> "direct",
                tried |-> <<"direct">>]
          ELSE [parsed |-> ParseFail, segment |-> NoSegment, stage |-> "none",
                tried |-> <<"direct">>]
          : direct \in {JsonLoads(r)}})

\* lines 158-179: the three parse attempts on raw; parsed.ok FALSE is None.
\* A direct parse that returns None (the text null) raises nothing, so the
\* scan in the except clause is skipped, and the test of line 171 sends it
\* to the first/last-brace fallback.
ParseAttempts(r) ==
    Only({IF direct.ok /\ direct.val # JsonNull
          THEN [parsed |-> direct, segment |-> NoSegment, stage |-> "direct",
                tried |-> <<"direct">>]
          ELSE IF direct.ok
          THEN After("direct", FallbackParse(r, NoSegment))
          ELSE After("direct", ScanParse(r))
          : direct \in {JsonLoads(r)}})

AiSuccess(data) == [success |-> TRUE, data |-> data]

\* the failure dict with a data field left in
AiFailureWithData(error) == [success |-> FALSE, error |-> error, data |-> <<>>]

AiFailure(error) == [success |-> FALSE, error |-> error]

\* lines 155-209 for the completion text c
Extract(c) ==
    Only({Only({[raw |-> r, segment |-> a.segment, stage |-> a.stage, tried |-> a.tried,
                 result |-> IF a.parsed.ok THEN AiSuccess(a.parsed.val)
                            ELSE AiFailure("Failed to parse AI response")]
                : a \in {ParseAttempts(r)}})
          : r \in {sanitize_control_chars(remove_code_fences(c))}})

\* ---- completion texts ---------------------------------------------------

LeadChars == {"a", " ", "{", "}", "dq"}

TrailChars == {"a", "}", "dq"}

StrUnits == {<<"a">>, <<"{">>, <<"}">>, <<" ">>, <<"bs", "dq">>, <<"bs", "bs">>}

JsonStringTexts == {<<"dq">> \o Concat(u) \o <<"dq">> : u \in SeqsUpTo(StrUnits, MaxStr)}

KeyA == <<"dq", "a", "dq">>

JsonObjectTexts ==
    {<<"{", "}">>, <<"{", " ", KeyA[1], KeyA[2], KeyA[3], ":", " ", "1", ",", "nl",
                     "dq", "}", "dq", ":", "{", "}", "}">>}
        \cup {<<"{">> \o KeyA \o <<":">> \o v \o <<"}">> :
                v \in JsonStringTexts \cup {<<"1">>}}
        \cup {<<"{">> \o KeyA \o <<":", "{">> \o v \o <<":", "1", "}", "}">> :
                v \in JsonStringTexts}

JsonScalarTexts == {<<"1">>, <<"dq", "a", "dq">>, <<"dq", "}", "dq">>, NullText}

GarbageTexts ==
    {<<>>, <<"a">>, <<"{">>, <<"}", "{">>, <<"{", "a", "}">>,
     <<"{", "dq", "a", "dq", ":", "}">>, <<"{", "dq", "a", "dq", ":", "dq", "}">>}

\* JSON but for a stray control character
ControlCharTexts ==
    {<<"{", "ff", "}">>, <<"{", "dq", "a", "ff", "dq", ":", "ff", "1", "}">>}

InnerTexts == JsonObjectTexts \cup JsonScalarTexts \cup GarbageTexts \cup ControlCharTexts

\* How the completion text fences the payload: "none" not at all, "block"
\* between two fence marker lines, "unclosed" after an opening marker line
\* that no closing marker follows, "inline" with the closing marker at the
\* end of the payload's last line
FenceShapes == {"none", "block", "unclosed", "inline"}

\* lead, then the opening marker line and the payload, then trail
WrapUnclosed(l, i, t) ==
    l \o (IF l = <<>> THEN <<>> ELSE <<"nl">>) \o Fence \o <<"a", "nl">> \o i
      \o (IF t = <<>> THEN <<>> ELSE <<"nl">> \o t)

\* lead, then the opening marker line, the payload and the closing marker
\* on the payload's line, then trail
WrapInline(l, i, t) ==
    l \o (IF l = <<>> THEN <<>> ELSE <<"nl">>) \o Fence \o <<"a", "nl">> \o i
      \o Fence \o (IF t = <<>> THEN <<>> ELSE <<"nl">> \o t)

\* lead, then the payload between two fence marker lines, then trail
Wrap(l, i, t) ==
    l \o (IF l = <<>> THEN <<>> ELSE <<"nl">>) \o Fence \o <<"a", "nl">> \o i
      \o <<"nl">> \o Fence \o (IF t = <<>> THEN <<>> ELSE <<"nl">> \o t)

NoAiResult == [none |-> TRUE]

ExtractInit ==
    /\ lead = <<>>
    /\ inner = <<>>
    /\ trail = <<>>
    /\ fenced = FALSE
    /\ content = <<>>
    /\ raw = <<>>
    /\ segment = NoSegment
    /\ stage = "idle"
    /\ ai_result = NoAiResult
    /\ alone = NoAiResult
    /\ tried = <<>>
    /\ fence_shape = "none"
    /\ scan_trace = <<>>

\* generate_tasks_from_prompt when Groq answers 200 with completion text c
GenerateTasks ==
    /\ stage = "idle"
    /\ \E l \in SeqsUpTo(LeadChars, MaxLead), i \in InnerTexts,
          t \in SeqsUpTo(TrailChars, MaxTrail), f \in FenceShapes :
        \E c \in {CASE f = "block" -> Wrap(l, i, t)
                     [] f = "unclosed" -> WrapUnclosed(l, i, t)
                     [] f = "inline" -> WrapInline(l, i, t)
                     [] OTHER -> l \o i \o t} : \E x \in {Extract(c)} :
           /\ lead' = l
           /\ inner' = i
           /\ trail' = t
           /\ fenced' = (f = "block")
           /\ fence_shape' = f
           /\ scan_trace' = IF \E n \in DOMAIN x.tried : x.tried[n] = "scan"
                             THEN ScanTrace(x.raw, 1, ScanInit, <<>>)
                             ELSE <<>>
           /\ content' = c
           /\ raw' = x.raw
           /\ segment' = x.segment
           /\ stage' = x.stage
           /\ ai_result' = x.result
           /\ alone' = Extract(i).result
           /\ tried' = x.tried
    /\ UNCHANGED notExtractVars

\* generate_tasks_from_prompt when Groq answers with an HTTP error status
\* (raise_for_status) or with a body that has no choices[0].message.content
GenerateTasksApiError ==
    /\ stage = "idle"
    /\ \E e \in {"HTTP 500", "KeyError"} :
        /\ ai_result' = AiFailure(e)
        /\ stage' = "apierror"
    /\ UNCHANGED <<lead, inner, trail, fenced, content, raw, segment, alone, tried,
                   fence_shape, scan_trace>>
    /\ UNCHANGED notExtractVars

ExtractNext == GenerateTasks \/ GenerateTasksApiError

\* the client as constructed with the default JIRA_SUBTASK_TYPE
ClientDefaultInit == ClientInit /\ subtask_type = "Sub-task"


(***************************************************************************)
(* Markdown converter: JiraIntegration._parse_description                  *)
(***************************************************************************)

\* Bound on the number of lines of the descriptions the model converts
MaxLines == 3

\* The description lines the model builds descriptions from; an empty line
\* between two others makes the blank-line section boundary
LinePool ==
    {<<>>, <<" ">>, <<"*", "a", "*">>, <<"b">>, <<"bu", " ", "a">>, <<"-", " ", "b">>,
     <<"*", " ", "a">>, <<"1", ".", " ", "a">>, <<"-", "-", "-">>, <<"_", "a", "_">>,
     <<"_", "*", "a", "*", "_">>, <<"-", " ", "-", "b">>, <<"*", "*", "*">>, <<"_">>,
     <<"bu">>, <<"s2", ".", " ", "a">>}

Descriptions == {Join(ls, <<"nl">>) : ls \in SeqsUpTo(LinePool, MaxLines)}

\* str.lstrip(chars), str.rstrip(chars), str.strip(chars)
RECURSIVE LStripChars(_, _)
LStripChars(t, chars) ==
    IF t # <<>> /\ Head(t) \in chars THEN LStripChars(Tail(t), chars) ELSE t

RECURSIVE RStripChars(_, _)
RStripChars(t, chars) ==
    IF t # <<>> /\ t[Len(t)] \in chars
    THEN RStripChars(SubSeq(t, 1, Len(t) - 1), chars) ELSE t

StripChars(t, chars) == RStripChars(LStripChars(t, chars), chars)

\* str.isdigit() on the model's characters: true of the decimal digits and
\* of the other characters of Unicode's digit property, superscripts included
IsDigit(c) == c \in {"1", "s2"}

\* int(c) raises ValueError for a character that is not a decimal digit
IntRaises(c) == c # "1"

\* int(c) for a decimal digit of the model
DigitValue(c) == 1

\* what stands for the blocks when an exception left the function
Raised == <<[type |-> "raised", error |-> "ValueError"]>>

\* the text "No description provided", one token of the model
Placeholder == <<"No description provided">>

TextRun(text) == [type |-> "text", text |-> text]

EmRun(text) == [type |-> "text", text |-> text, marks |-> <<[type |-> "em"]>>]

Paragraph(runs) == [type |-> "paragraph", content |-> runs]

Heading(text) == [type |-> "heading", attrs |-> [level |-> 3], content |-> <<TextRun(text)>>]

ListItem(text) == [type |-> "listItem", content |-> <<Paragraph(<<TextRun(text)>>)>>]

BulletList(items) == [type |-> "bulletList", content |-> items]

OrderedList(order, items) ==
    [type |-> "orderedList", attrs |-> [order |-> order], content |-> items]

Rule == [type |-> "rule"]

\* the if/elif chain of lines 394-476 on a stripped, non-empty line
LineKind(line) ==
    IF StartsWith(line, <<"*">>) /\ EndsWith(line, <<"*">>) /\ Len(line) > 2 THEN "heading"
    ELSE IF StartsWith(line, <<"bu">>) \/ StartsWith(line, <<"-", " ">>)
            \/ StartsWith(line, <<"*", " ">>) THEN "bullet"
    ELSE IF Len(line) > 2 /\ IsDigit(line[1]) /\ line[2] = "." THEN "ordered"
    ELSE IF StartsWith(line, <<"-", "-", "-">>) THEN "rule"
    ELSE IF StartsWith(line, <<"_">>) /\ EndsWith(line, <<"_">>) THEN "em"
    ELSE "plain"

\* line 431: line.lstrip('•').lstrip('- ').lstrip('* ').strip()
BulletText(line) ==
    Strip(LStripChars(LStripChars(LStripChars(line, {"bu"}), {"-", " "}), {"*", " "}))

\* line 451: line.split('.', 1)[1].strip()
OrderedText(line) == Strip(SubSeq(line, Find(line, ".") + 1, Len(line)))

\* the flush of lines 395-400: the blocks with the pending paragraph appended
Flushed(blocks, para) == IF para # <<>> THEN Append(blocks, Paragraph(para)) ELSE blocks

\* lines 419-423: whether the list item joins the last block
JoinsLastNever(blocks, type) == FALSE

JoinsLast(blocks, type) == blocks # <<>> /\ blocks[Len(blocks)].type = type

\* the blocks with one more item in the last block
WithItem(blocks, item) ==
    [blocks EXCEPT ![Len(blocks)] = [@ EXCEPT !.content = Append(@, item)]]

\* lines 394-409 with the heading appended before the pending paragraph
HeadingBlocksBeforeFlush(blocks, para, line) ==
    Flushed(Append(blocks, Heading(StripChars(line, {"*"}))), para)

\* lines 394-409
HeadingBlocks(blocks, para, line) ==
    Append(Flushed(blocks, para), Heading(StripChars(line, {"*"})))

\* lines 411-434
BulletBlocks(blocks, para, line) ==
    Only({WithItem(IF JoinsLast(b, "bulletList") THEN b ELSE Append(b, BulletList(<<>>)),
                   ListItem(BulletText(line)))
          : b \in {Flushed(blocks, para)}})

\* lines 436-458
OrderedBlocks(blocks, para, line) ==
    Only({WithItem(IF JoinsLast(b, "orderedList") THEN b
                   ELSE Append(b, OrderedList(DigitValue(line[1]), <<>>)),
                   ListItem(OrderedText(line)))
          : b \in {Flushed(blocks, para)}})

\* line 447: an ordered line that opens a list evaluates int(line[0])
OrderedRaises(blocks, para, line) ==
    ~JoinsLast(Flushed(blocks, para), "orderedList") /\ IntRaises(line[1])

\* lines 460-467
RuleBlocks(blocks, para, line) == Append(Flushed(blocks, para), Rule)

\* lines 469-482 without the line-break run of lines 477-478
ParagraphAfterNoBreak(para, line, kind) ==
    IF kind = "em" THEN Append(para, EmRun(StripChars(line, {"_"})))
    ELSE Append(para, TextRun(line))

\* lines 469-482: the pending paragraph after an italic or a plain line
ParagraphAfter(para, line, kind) ==
    IF kind = "em" THEN Append(para, EmRun(StripChars(line, {"_"})))
    ELSE Append(IF para # <<>> THEN Append(para, TextRun(<<"nl">>)) ELSE para,
                TextRun(line))

\* lines 490-497: no block was made, so one paragraph of the description as given
FallbackBlocks(blocks, desc) ==
    IF blocks = <<>> THEN <<Paragraph(<<TextRun(desc)>>)>> ELSE blocks

\* lines 388-488 as a function: the blocks after the lines ls[i..] of a section
RECURSIVE ParseLines(_, _, _, _)
ParseLines(ls, i, blocks, para) ==
    IF i > Len(ls) THEN Flushed(blocks, para)
    ELSE IF Strip(ls[i]) = <<>> THEN ParseLines(ls, i + 1, blocks, para)
    ELSE IF LineKind(Strip(ls[i])) \in {"em", "plain"}
    THEN ParseLines(ls, i + 1, blocks,
                    ParagraphAfter(para, Strip(ls[i]), LineKind(Strip(ls[i]))))
    ELSE IF LineKind(Strip(ls[i])) = "heading"
    THEN ParseLines(ls, i + 1, HeadingBlocks(blocks, para, Strip(ls[i])), <<>>)
    ELSE IF LineKind(Strip(ls[i])) = "bullet"
    THEN ParseLines(ls, i + 1, BulletBlocks(blocks, para, Strip(ls[i])), <<>>)
    ELSE IF LineKind(Strip(ls[i])) = "ordered"
    THEN IF OrderedRaises(blocks, para, Strip(ls[i])) THEN Raised
         ELSE ParseLines(ls, i + 1, OrderedBlocks(blocks, para, Strip(ls[i])), <<>>)
    ELSE ParseLines(ls, i + 1, RuleBlocks(blocks, para, Strip(ls[i])), <<>>)

\* lines 381-488 as a function: the blocks after the sections secs[i..]
RECURSIVE ParseSections(_, _, _)
ParseSections(secs, i, blocks) ==
    IF i > Len(secs) \/ blocks = Raised THEN blocks
    ELSE IF Strip(secs[i]) = <<>> THEN ParseSections(secs, i + 1, blocks)
    ELSE ParseSections(secs, i + 1, ParseLines(Split(secs[i], <<"nl">>), 1, blocks, <<>>))

\* _parse_description as a function of the description, lines 369-499
ParseDescription(d) ==
    IF d = <<>> THEN <<Paragraph(<<TextRun(Placeholder)>>)>>
    ELSE FallbackBlocks(ParseSections(Split(d, <<"nl", "nl">>), 1, <<>>), d)

ConvertInit ==
    /\ description = <<>>
    /\ cpc = "idle"
    /\ sections = <<>>
    /\ si = 0
    /\ lines = <<>>
    /\ li = 0
    /\ content_blocks = <<>>
    /\ paragraph_content = <<>>
    /\ srclines = <<>>
    /\ block_line = <<>>
    /\ para_line = 0

\* _parse_description(description), lines 369-379: the empty description
\* returns the placeholder paragraph, any other is split into sections
ParseBegin ==
    /\ cpc = "idle"
    /\ \E d \in Descriptions :
        /\ description' = d
        /\ IF d = <<>>
           THEN /\ content_blocks' = <<Paragraph(<<TextRun(Placeholder)>>)>>
                /\ block_line' = <<0>>
                /\ sections' = <<>>
                /\ cpc' = "done"
           ELSE /\ content_blocks' = <<>>
                /\ block_line' = <<>>
                /\ sections' = Split(d, <<"nl", "nl">>)
                /\ cpc' = "sections"
    /\ si' = 1
    /\ UNCHANGED <<lines, li, paragraph_content, srclines, para_line>>
    /\ UNCHANGED notConvertVars

\* lines 381-386: the next section; a blank one is skipped
NextSection ==
    /\ cpc = "sections"
    /\ si <= Len(sections)
    /\ IF Strip(sections[si]) = <<>>
       THEN /\ si' = si + 1
            /\ UNCHANGED <<cpc, lines, li, paragraph_content>>
       ELSE /\ lines' = Split(sections[si], <<"nl">>)
            /\ li' = 1
            /\ paragraph_content' = <<>>
            /\ cpc' = "lines"
            /\ si' = si
    /\ UNCHANGED <<description, sections, content_blocks, srclines, block_line, para_line>>
    /\ UNCHANGED notConvertVars

\* the stripped line makes int() raise at line 447 in the current state
RaisesAt(line) ==
    /\ line # <<>>
    /\ LineKind(line) = "ordered"
    /\ OrderedRaises(content_blocks, paragraph_content, line)

\* lines 388-482: one iteration of the loop over the section's lines; the
\* ValueError of int() ends the function
ProcessLine ==
    /\ cpc = "lines"
    /\ li <= Len(lines)
    /\ \E line \in {Strip(lines[li])} : \E n \in {Len(srclines) + 1} :
        \E b \in {Flushed(content_blocks, paragraph_content)} :
         /\ srclines' = Append(srclines, [line |-> line, sec |-> si])
         /\ IF line = <<>>
            THEN UNCHANGED <<content_blocks, paragraph_content, block_line, para_line>>
            ELSE IF LineKind(line) \in {"em", "plain"}
            THEN /\ paragraph_content' = ParagraphAfter(paragraph_content, line, LineKind(line))
                 /\ para_line' = IF paragraph_content = <<>> THEN n ELSE para_line
                 /\ UNCHANGED <<content_blocks, block_line>>
            ELSE IF RaisesAt(line)
            THEN /\ content_blocks' = b
                 /\ paragraph_content' = <<>>
                 /\ para_line' = para_line
                 /\ block_line' = IF paragraph_content # <<>>
                                  THEN Append(block_line, para_line) ELSE block_line
            ELSE /\ content_blocks' =
                      CASE LineKind(line) = "heading" ->
                              HeadingBlocks(content_blocks, paragraph_content, line)
                        [] LineKind(line) = "bullet" ->
                              BulletBlocks(content_blocks, paragraph_content, line)
                        [] LineKind(line) = "ordered" ->
                              OrderedBlocks(content_blocks, paragraph_content, line)
                        [] LineKind(line) = "rule" ->
                              RuleBlocks(content_blocks, paragraph_content, line)
                 /\ paragraph_content' = <<>>
                 /\ para_line' = para_line
                 /\ block_line' =
                      Only({IF Len(content_blocks') > Len(bl) THEN Append(bl, n) ELSE bl
                            : bl \in {IF paragraph_content # <<>>
                                      THEN Append(block_line, para_line)
                                      ELSE block_line}})
    /\ cpc' = IF RaisesAt(Strip(lines[li])) THEN "raised" ELSE cpc
    /\ li' = li + 1
    /\ UNCHANGED <<description, sections, si, lines>>
    /\ UNCHANGED notConvertVars

\* lines 484-488: the end of the section flushes the pending paragraph
EndSection ==
    /\ cpc = "lines"
    /\ li > Len(lines)
    /\ content_blocks' = Flushed(content_blocks, paragraph_content)
    /\ block_line' = IF paragraph_content # <<>> THEN Append(block_line, para_line)
                     ELSE block_line
    /\ si' = si + 1
    /\ cpc' = "sections"
    /\ UNCHANGED <<description, sections, lines, li, paragraph_content, srclines, para_line>>
    /\ UNCHANGED notConvertVars

\* lines 490-499: after the last section
ParseEnd ==
    /\ cpc = "sections"
    /\ si > Len(sections)
    /\ content_blocks' = FallbackBlocks(content_blocks, description)
    /\ block_line' = IF content_blocks = <<>> THEN <<0>> ELSE block_line
    /\ cpc' = "done"
    /\ UNCHANGED <<description, sections, si, lines, li, paragraph_content, srclines,
                   para_line>>
    /\ UNCHANGED notConvertVars

ConvertNext == ParseBegin \/ NextSection \/ ProcessLine \/ EndSection \/ ParseEnd

(***************************************************************************)
(* Concurrent requests sharing the client jira (line 514)                  *)
(***************************************************************************)

\* the requests in flight at the same time
Threads == {"r1", "r2"}

\* the answers the tracker gives in the concurrent model
SharedAnswers ==
    {a \in WireAnswers : a.status \in {400, 404, 503} \/ (a.status = 201 /\ a.body = "key")}

IdleThread ==
    [op |-> "none", pc |-> "idle", idx |-> 0, issuetype |-> "", total |-> 0,
     sent |-> <<>>, answers |-> <<>>, result |-> NoResult]

\* line 324: the index the loop over the candidate names starts at, whatever
\* the other requests ths have reached
StartIdxAfterOthers(ths) == IF \E u \in DOMAIN ths : ths[u].idx = 2 THEN 2 ELSE 1

StartIdx(ths) == 1

SharedInit == threads = [t \in Threads |-> IdleThread]

\* request t enters criar_tarefa or criar_subtask, up to its first session.post
ThreadCalls(t) ==
    /\ threads[t].pc = "idle"
    /\ \/ threads' = [threads EXCEPT ![t] =
                        [@ EXCEPT !.op = "criar_tarefa", !.pc = "post",
                                  !.issuetype = "Story", !.total = RetryTotal]]
       \/ \E i \in {StartIdx(threads)} :
            /\ i <= Len(alternatives)
            /\ threads' = [threads EXCEPT ![t] =
                             [@ EXCEPT !.op = "criar_subtask", !.pc = "post", !.idx = i,
                                       !.issuetype = alternatives[i],
                                       !.total = RetryTotal]]
    /\ UNCHANGED <<subtask_type, alternatives>>
    /\ UNCHANGED notThreadVars

\* inside request t's session.post: a transient answer with retries left
ThreadResends(t) ==
    /\ threads[t].pc = "post"
    /\ \E a \in SharedAnswers :
        /\ IsTransient(a)
        /\ ~RetryExhausted(threads[t].total)
        /\ threads' = [threads EXCEPT ![t] =
                         [@ EXCEPT !.total = @ - 1,
                                   !.sent = Append(@, threads[t].issuetype),
                                   !.answers = Append(@, a)]]
    /\ UNCHANGED <<subtask_type, alternatives>>
    /\ UNCHANGED notThreadVars

\* what request t does once its session.post ended with answer a: "next"
\* (the loop posts the next candidate name), "fail" or "success"
ThreadVerdict(th, a) ==
    IF th.op = "criar_subtask" /\ PostOutcome(a) = "response" /\ TriesNextOn400(a, th.idx)
    THEN "next"
    ELSE IF PostOutcome(a) = "exception" \/ a.status >= 400
    THEN IF th.op = "criar_subtask" /\ ~Reraises(a, th.idx) THEN "next" ELSE "fail"
    ELSE "success"

\* request t's session.post ends, and the call goes on to its return or to
\* the next candidate name
ThreadPostEnds(t) ==
    /\ threads[t].pc = "post"
    /\ \E a \in SharedAnswers :
        /\ IsTransient(a) => RetryExhausted(threads[t].total)
        /\ \E v \in {ThreadVerdict(threads[t], a)} :
            threads' = [threads EXCEPT ![t] =
              [@ EXCEPT !.sent = Append(@, threads[t].issuetype),
                        !.answers = Append(@, a),
                        !.pc = IF v = "next" THEN "post" ELSE "done",
                        !.idx = IF v = "next" THEN @ + 1 ELSE @,
                        !.issuetype = IF v = "next" THEN alternatives[threads[t].idx + 1] ELSE @,
                        !.total = IF v = "next" THEN RetryTotal ELSE @,
                        !.result = CASE v = "next" -> @
                                     [] v = "fail" -> Failure(ErrorOf(a), DetailsOf(a))
                                     [] v = "success" -> Success]]
    /\ UNCHANGED <<subtask_type, alternatives>>
    /\ UNCHANGED notThreadVars

SharedNext == \E t \in Threads : ThreadCalls(t) \/ ThreadResends(t) \/ ThreadPostEnds(t)

(***************************************************************************)
(* /create-task: handle_create_task_command                                *)
(***************************************************************************)

\* Bound on the number of subtasks of the plans the model handles
MaxSubtasks == 3

\* the titles the plan's subtasks are taken from
Titles == {"t1", "t2"}

\* JSON values as json.loads gives them to the handler: a dict with the keys
\* it has (has) and their values (fields; a key it lacks holds the filler of
\* the same name), a list, a str, a number
JNum == [kind |-> "num"]

JStr(chars) == [kind |-> "str", chars |-> chars]

JList(items) == [kind |-> "list", items |-> items]

JMissing == [kind |-> "missing"]

\* a story or subtask dict with a title, and one without
Titled(title) == [kind |-> "dict", has |-> {"title"}, fields |-> [title |-> title]]

Untitled == [kind |-> "dict", has |-> {}, fields |-> [title |-> ""]]

\* a dict with the given ones of the keys story and subtasks
TasksDict(has, story, subtasks) ==
    [kind |-> "dict", has |-> has,
     fields |-> [story |-> IF "story" \in has THEN story ELSE JMissing,
                 subtasks |-> IF "subtasks" \in has THEN subtasks ELSE JMissing]]

\* whether v.get exists: only a dict has the method, any other value raises
\* AttributeError
HasGet(v) == v.kind = "dict"

\* d.get(k, default) on a dict
Get(d, k, default) == IF k \in d.has THEN d.fields[k] ELSE default

\* whether len(v) is defined: a number raises TypeError
HasLen(v) == v.kind \in {"list", "str", "dict"}

\* what iterating over v yields (enumerate(subtasks_data, 1), line 586): the
\* items of a list, the characters of a str
Items(v) ==
    CASE v.kind = "list" -> v.items
      [] v.kind = "str" -> [i \in DOMAIN v.chars |-> JStr(<<v.chars[i]>>)]
      [] OTHER -> <<>>

\* the values the model gives the story key, the elements of the subtasks
\* list, and the subtasks key
StoryValues == {Titled("story"), Untitled, JNum}

ItemValues == {Titled(t) : t \in Titles} \cup {Untitled, JNum}

SubtasksValues ==
    {JList(items) : items \in SeqsUpTo(ItemValues, MaxSubtasks)} \cup {JNum, JStr(<<"a">>)}

\* the JSON values the extractor can return as a success: whatever json.loads
\* accepts but null
AiData ==
    {TasksDict(has, story, subtasks) :
        has \in SUBSET {"story", "subtasks"}, story \in StoryValues,
        subtasks \in SubtasksValues}
      \cup {JList(<<>>), JNum, JStr(<<"a">>)}

\* story_data of line 548
StoryData(data) == Get(data, "story", Untitled)

\* the summary of the story's create call, line 564
StorySummary(data) == Get(StoryData(data), "title", "AI Generated Story")

\* the summary of the idx-th subtask's create call, line 598
SubtaskSummary(subtask, i) ==
    Get(subtask, "title", <<"Subtask 1", "Subtask 2", "Subtask 3", "Subtask 4">>[i])

\* What a create call on jira can end in (the client model above):
\* "success" the success dict, "failure" the failure dict, "raised" the
\* KeyError that escapes when a 2xx body has no key
CallOutcomes == {"success", "failure", "raised"}

\* whether the tracker created an issue in a call that ended in outcome o
TrackerCreated(o) == o \in {"success", "raised"}

\* the key the tracker gives its next issue
NextKey(issues) == Len(issues) + 1

\* the tracker after a create call with the given fields and outcome
TrackerAfter(issues, parent, summary, o) ==
    IF TrackerCreated(o)
    THEN Append(issues, [key |-> NextKey(issues), parent |-> parent, summary |-> summary])
    ELSE issues

\* line 586: the subtask the loop handles at its idx-th iteration
SubtaskAtReversed(data, i) == data[Len(data) + 1 - i]

SubtaskAt(data, i) == data[i]

\* the entry appended at line 606
CreatedEntry(key, title) == [key |-> key, title |-> title]

\* the final message with the number of subtasks in place of the number created
FinalMessageCountsPlan(key, created, data) ==
    [kind |-> "final", story |-> key, created |-> Len(data), total |-> Len(data),
     list |-> created]

\* the final message of lines 614-621
FinalMessage(key, created, data) ==
    [kind |-> "final", story |-> key, created |-> Len(created), total |-> Len(data),
     list |-> created]

Message(kind) == [kind |-> kind]

\* the texts the model's commands carry
CommandTexts == {<<>>, <<" ">>, <<"x">>, <<" ", "x">>}

\* line 522 without the strip()
TextOfUnstripped(t) == t

\* line 522: text = command['text'].strip()
TextOf(t) == Strip(t)

HandlerInit ==
    /\ hpc = "idle"
    /\ command_text = <<>>
    /\ ai_calls = <<>>
    /\ tasks_data = JMissing
    /\ subtasks_data = JList(<<>>)
    /\ story_key = 0
    /\ hidx = 0
    /\ created_subtasks = <<>>
    /\ responses = <<>>
    /\ calls = <<>>
    /\ tracker = <<>>

\* lines 519-537: the command arrives; an empty text is answered with the
\* usage message, any other goes to the AI
CreateTaskCommand ==
    /\ hpc = "idle"
    /\ \E t \in CommandTexts : \E text \in {TextOf(t)} :
        /\ command_text' = t
        /\ IF text = <<>>
           THEN /\ responses' = Append(responses, Message("usage"))
                /\ hpc' = "done"
                /\ UNCHANGED ai_calls
           ELSE /\ responses' = Append(responses, Message("analyzing"))
                /\ ai_calls' = Append(ai_calls, text)
                /\ hpc' = "ai"
    /\ UNCHANGED <<tasks_data, subtasks_data, story_key, hidx, created_subtasks, calls,
                   tracker>>
    /\ UNCHANGED notHandlerVars

\* lines 537-561: generate_tasks_from_prompt returned; a failure ends the
\* request, a success gives the data the story and the subtasks are read
\* from.  tasks_data.get (line 548) and story_data.get (line 554) raise
\* AttributeError on a value that is not a dict
AiReturns ==
    /\ hpc = "ai"
    /\ \/ /\ responses' = Append(responses, Message("ai_failed"))
          /\ hpc' = "done"
          /\ UNCHANGED <<tasks_data, subtasks_data>>
       \/ \E data \in AiData :
            /\ tasks_data' = data
            /\ IF ~HasGet(data)
               THEN /\ hpc' = "raised"
                    /\ UNCHANGED <<subtasks_data, responses>>
               ELSE /\ subtasks_data' = Get(data, "subtasks", JList(<<>>))
                    /\ responses' = Append(responses, Message("creating_story"))
                    /\ hpc' = IF HasGet(StoryData(data)) THEN "story" ELSE "raised"
    /\ UNCHANGED <<story_key, hidx, created_subtasks, calls, tracker>>
    /\ UNCHANGED <<command_text, ai_calls>>
    /\ UNCHANGED notHandlerVars

\* lines 563-583: jira.criar_tarefa for the story, and what follows it;
\* len(subtasks_data) at line 583 raises TypeError on a number
StoryReturns ==
    /\ hpc = "story"
    /\ \E o \in CallOutcomes : \E summary \in {StorySummary(tasks_data)} :
        /\ calls' = Append(calls, [op |-> "criar_tarefa", parent |-> 0, n |-> 0,
                                   summary |-> summary, outcome |-> o])
        /\ tracker' = TrackerAfter(tracker, 0, summary, o)
        /\ CASE o = "raised" ->
                  /\ hpc' = "raised"
                  /\ UNCHANGED <<story_key, hidx, responses>>
             [] o = "failure" ->
                  /\ responses' = Append(responses, Message("story_failed"))
                  /\ hpc' = "done"
                  /\ UNCHANGED <<story_key, hidx>>
             [] o = "success" ->
                  /\ story_key' = NextKey(tracker)
                  /\ IF HasLen(subtasks_data)
                     THEN /\ responses' = Append(responses, Message("story_created"))
                          /\ hidx' = 1
                          /\ hpc' = "subtasks"
                     ELSE /\ hpc' = "raised"
                          /\ UNCHANGED <<hidx, responses>>
    /\ UNCHANGED <<tasks_data, subtasks_data, created_subtasks>>
    /\ UNCHANGED <<command_text, ai_calls>>
    /\ UNCHANGED notHandlerVars

\* lines 586-609: one iteration of the loop over subtasks_data; subtask.get
\* (line 587) raises AttributeError on an element that is not a dict
SubtaskReturns ==
    /\ hpc = "subtasks"
    /\ hidx <= Len(Items(subtasks_data))
    /\ \E subtask \in {SubtaskAt(Items(subtasks_data), hidx)} :
        IF ~HasGet(subtask)
        THEN /\ hpc' = "raised"
             /\ UNCHANGED <<hidx, created_subtasks, calls, tracker>>
        ELSE \E o \in CallOutcomes : \E summary \in {SubtaskSummary(subtask, hidx)} :
            /\ calls' = Append(calls, [op |-> "criar_subtask", parent |-> story_key,
                                       n |-> hidx, summary |-> summary, outcome |-> o])
            /\ tracker' = TrackerAfter(tracker, story_key, summary, o)
            /\ CASE o = "raised" ->
                      /\ hpc' = "raised"
                      /\ UNCHANGED <<hidx, created_subtasks>>
                 [] o = "failure" ->
                      /\ hidx' = hidx + 1
                      /\ UNCHANGED <<hpc, created_subtasks>>
                 [] o = "success" ->
                      /\ created_subtasks' =
                            Append(created_subtasks,
                                   CreatedEntry(NextKey(tracker), Get(subtask, "title", "")))
                      /\ hidx' = hidx + 1
                      /\ UNCHANGED hpc
    /\ UNCHANGED <<tasks_data, subtasks_data, story_key, responses>>
    /\ UNCHANGED <<command_text, ai_calls>>
    /\ UNCHANGED notHandlerVars

\* lines 611-621: the loop is over, the summary is sent
FinalReport ==
    /\ hpc = "subtasks"
    /\ hidx > Len(Items(subtasks_data))
    /\ responses' = Append(responses, FinalMessage(story_key, created_subtasks,
                                                   Items(subtasks_data)))
    /\ hpc' = "done"
    /\ UNCHANGED <<tasks_data, subtasks_data, story_key, hidx, created_subtasks, calls,
                   tracker>>
    /\ UNCHANGED <<command_text, ai_calls>>
    /\ UNCHANGED notHandlerVars

HandlerNext == CreateTaskCommand \/ AiReturns \/ StoryReturns \/ SubtaskReturns \/ FinalReport

InitHandler == ClientDefaultInit /\ ExtractInit /\ ConvertInit /\ HandlerInit /\ SharedInit

InitShared == ClientDefaultInit /\ ExtractInit /\ ConvertInit /\ HandlerInit /\ SharedInit

SpecShared == InitShared /\ [][SharedNext]_vars

SpecHandler == InitHandler /\ [][HandlerNext]_vars

InitExtract == ClientDefaultInit /\ ExtractInit /\ ConvertInit /\ HandlerInit /\ SharedInit

SpecExtract == InitExtract /\ [][ExtractNext]_vars

InitConvert == ClientDefaultInit /\ ExtractInit /\ ConvertInit /\ HandlerInit /\ SharedInit

SpecConvert == InitConvert /\ [][ConvertNext]_vars

InitClient == ClientInit /\ ExtractInit /\ ConvertInit /\ HandlerInit /\ SharedInit

SpecClient == InitClient /\ [][ClientNext]_vars

\* The call's code keeps running: urllib3 sleeps its backoff and sends again,
\* and every send ends within the timeout=(5, 30) of lines 278 and 332
SpecClientFair == InitClient /\ [][ClientNext]_vars /\ WF_vars(ClientNext)

(***************************************************************************)
(* Claims about the Jira client, checked under SpecClient                  *)
(***************************************************************************)

HasFallback == Lower(subtask_type) \in {"sub-task", "subtask"}

FirstCandidateGot400 ==
    /\ op = "criar_subtask"
    /\ Len(posts) >= 1
    /\ posts[1].final = "response"
    /\ posts[1].last.status = 400

\* C1: in criar_subtask, when the configured type is 'Sub-task' or 'Subtask'
\* in any letter case and the post with the configured type is answered
\* HTTP 400, exactly one further post is made, with the alternate spelling,
\* and when that second send is answered 2xx with the created issue's key
\* the call returns the success result carrying that key.
C1_FallbackRetriesOnceAndSucceeds ==
    (HasFallback /\ FirstCandidateGot400) =>
        /\ posts[1].type = subtask_type
        /\ Len(posts) = 2
        /\ posts[2].type # posts[1].type
        /\ Lower(posts[2].type) \in {"sub-task", "subtask"} \ {Lower(subtask_type)}
        /\ issuetype = posts[2].type
        /\ (posts[2].final = "response" /\ posts[2].last = [status |-> 201, body |-> "key"]
               /\ posts[2].sends = 1)
            => (pc = "done" /\ escaped = "none" /\ result = Success
                /\ result.key = IssueKey)

C1_Witness ==
    /\ HasFallback
    /\ FirstCandidateGot400
    /\ Len(posts) = 2
    /\ posts[2].sends = 1
    /\ posts[2].last = [status |-> 201, body |-> "key"]
    /\ pc = "done"
    /\ result = Success

\* C2: in criar_subtask, whenever the first candidate's post ended on a
\* non-2xx status other than 400 (another 4xx, 429 or 5xx), the failure is
\* returned at once and no post with the alternate type name is made.
C2_AlternateOnlyAfter400 ==
    (/\ op = "criar_subtask"
     /\ Len(posts) >= 1
     /\ posts[1].final # "pending"
     /\ posts[1].last.status >= 400
     /\ posts[1].last.status # 400)
        => (Len(posts) = 1 /\ pc = "done" /\ result.success = FALSE)

\* C3: in criar_tarefa, while every answer is HTTP 503 the request is sent
\* again until RetryTotal re-sends have been made, no send follows, and the
\* call returns a failure result.
C3_Retries503UpToCeiling ==
    (op = "criar_tarefa" /\ posts[1].sends > 0 /\ posts[1].all503) =>
        /\ posts[1].sends <= RetryTotal + 1
        /\ posts[1].sends <= RetryTotal => pc = "post"
        /\ posts[1].sends = RetryTotal + 1 =>
              (pc = "done" /\ escaped = "none" /\ result.success = FALSE)

C3_Witness ==
    /\ op = "criar_tarefa"
    /\ posts[1].all503
    /\ posts[1].sends = RetryTotal + 1
    /\ pc = "done"
    /\ result.success = FALSE

\* C4: whatever the tracker answers, criar_tarefa and criar_subtask end by
\* returning a result with a success flag; no exception escapes.
C4_NoExceptionEscapes ==
    /\ escaped = "none"
    /\ pc # "raised"
    /\ pc = "done" => result.success \in BOOLEAN

(***************************************************************************)
(* Claims about the extractor, checked under SpecExtract                   *)
(***************************************************************************)

Returned == stage \in {"direct", "scan", "fallback", "none"}

IsObjectText(t) == Only({r.ok /\ r.val.t = "obj" : r \in {JsonLoads(t)}})

NoneOf(t, chars) == \A i \in DOMAIN t : t[i] \notin chars

RECURSIVE BraceInString(_)
BraceInString(v) ==
    IF v.t = "str" THEN ~NoneOf(v.s, {"{", "}"})
    ELSE IF v.t = "obj"
    THEN \E k \in DOMAIN v.m : ~NoneOf(k, {"{", "}"}) \/ BraceInString(v.m[k])
    ELSE FALSE

\* some slice of t is a text json.loads accepts
ContainsJson(t) == \E i \in DOMAIN t : \E j \in i..Len(t) : JsonLoads(SubSeq(t, i, j)).ok

\* v is the value of some slice of t
IsValueOfSlice(v, t) ==
    \E i \in DOMAIN t : \E j \in i..Len(t) :
        JsonLoads(SubSeq(t, i, j)) = ParseOk(v, j - i + 2)

\* C5 as stated: for every completion text made of leading prose, a fenced
\* block whose interior is a JSON value, and trailing prose, the extractor
\* returns what it returns for the interior alone.
C5_AnyProseAnyValue ==
    (Returned /\ fenced /\ lead # <<>> /\ trail # <<>> /\ JsonLoads(inner).ok)
        => ai_result = alone

\* C5 amended: when the interior of the fenced block is a JSON object and
\* the leading prose contains no {, [ or double quote, the extractor
\* succeeds with the value it returns for the interior alone, the value of
\* the interior.
C5_FencedObjectSameAsInterior ==
    (Returned /\ fenced /\ IsObjectText(inner) /\ NoneOf(lead, {"{", "[", "dq"}))
        => /\ ai_result.success
           /\ ai_result = alone
           /\ ai_result.data = JsonLoads(inner).val

C5_Witness ==
    /\ Returned
    /\ fenced
    /\ lead # <<>>
    /\ ~NoneOf(trail, {"}"})
    /\ NoneOf(lead, {"{", "dq", " "})
    /\ IsObjectText(inner)
    /\ Len(inner) > 2
    /\ stage = "scan"
    /\ ai_result.success
    /\ ai_result = alone

\* C6: for every JSON object with a { or } inside one of its strings, the
\* balanced-object scan of a text in which the object is the first { and no
\* double quote precedes it returns the slice from the object's opening
\* brace to its matching closing brace, that is the object's text.
C6_ScanFindsMatchingBrace ==
    (Returned /\ IsObjectText(inner) /\ BraceInString(JsonLoads(inner).val)
        /\ NoneOf(lead, {"{", "dq"}))
        => /\ extract_braced_json(raw) = [found |-> TRUE, text |-> inner]
           /\ stage # "direct" => segment = [found |-> TRUE, text |-> inner]

C6_Witness ==
    /\ Returned
    /\ IsObjectText(inner)
    /\ BraceInString(JsonLoads(inner).val)
    /\ lead # <<>>
    /\ NoneOf(lead, {"{", "dq"})
    /\ ~NoneOf(trail, {"}"})
    /\ stage = "scan"
    /\ segment = [found |-> TRUE, text |-> inner]

\* C7 as stated: for every unfenced text prose + JSON object + prose,
\* whatever the prose, the extractor succeeds with that object; and for a
\* text that contains no parseable JSON it does not succeed.
C7_AnyProse ==
    /\ (Returned /\ fence_shape = "none" /\ IsObjectText(inner))
          => (ai_result.success /\ ai_result.data = JsonLoads(inner).val)
    /\ (Returned /\ ~ContainsJson(content)) => ~ai_result.success

\* C7 amended: for every unfenced text prose + JSON object + prose whose
\* leading prose contains no {, [ or double quote, the extractor succeeds
\* with that object; and it succeeds only with the value of a slice of the
\* sanitized text, so never on a text whose sanitized form contains no
\* parseable JSON.
C7_BenignLeadingProse ==
    /\ (Returned /\ fence_shape = "none" /\ IsObjectText(inner) /\ NoneOf(lead, {"{", "[", "dq"}))
          => (ai_result.success /\ ai_result.data = JsonLoads(inner).val)
    /\ (Returned /\ ai_result.success) => IsValueOfSlice(ai_result.data, raw)
    /\ (Returned /\ ai_result.success) => ContainsJson(raw)

C7_Witness ==
    /\ Returned
    /\ fence_shape = "none"
    /\ lead # <<>>
    /\ NoneOf(lead, {"{", "dq", " "})
    /\ trail # <<>>
    /\ IsObjectText(inner)
    /\ Len(inner) > 2
    /\ ai_result.success
    /\ ai_result.data = JsonLoads(inner).val

C7_WitnessGarbage ==
    /\ Returned
    /\ ~ContainsJson(raw)
    /\ Len(raw) > 2
    /\ ~ai_result.success

(***************************************************************************)
(* Claims about the converter, checked under SpecConvert                   *)
(***************************************************************************)

DescriptionLines == Split(description, <<"nl">>)

\* C8: for the empty description and for every description of whitespace
\* only, _parse_description returns exactly one paragraph whose single text
\* run is the placeholder.
C8_BlankGivesPlaceholder ==
    (cpc = "done" /\ Strip(description) = <<>>)
        => content_blocks = <<Paragraph(<<TextRun(Placeholder)>>)>>

AllBulletLines ==
    /\ description # <<>>
    /\ \A i \in DOMAIN DescriptionLines :
          /\ Strip(DescriptionLines[i]) # <<>>
          /\ LineKind(Strip(DescriptionLines[i])) = "bullet"

IsBulletLine(l) == l.line # <<>> /\ LineKind(l.line) = "bullet"

\* the inner loop reads a bullet line right after a bullet line of the same
\* section
NextBulletOfRun ==
    /\ Len(srclines') = Len(srclines) + 1
    /\ Len(srclines) >= 1
    /\ IsBulletLine(srclines[Len(srclines)])
    /\ IsBulletLine(srclines'[Len(srclines')])
    /\ srclines[Len(srclines)].sec = srclines'[Len(srclines')].sec

\* C9: every bullet line that directly follows a bullet line of its section
\* adds its item at the end of the bullet list the line before it added to,
\* and opens no block, so n consecutive bullet lines make n items, in line
\* order, of one bulletList block; a description of n >= 1 bullet lines
\* converts to exactly one bulletList block with those n items.
C9_ConsecutiveBulletsOneList ==
    /\ [][NextBulletOfRun =>
            /\ Len(content_blocks') = Len(content_blocks)
            /\ content_blocks # <<>>
            /\ \A b \in 1..(Len(content_blocks) - 1) : content_blocks'[b] = content_blocks[b]
            /\ content_blocks[Len(content_blocks)].type = "bulletList"
            /\ content_blocks'[Len(content_blocks)].type = "bulletList"
            /\ content_blocks'[Len(content_blocks)].content =
                  Append(content_blocks[Len(content_blocks)].content,
                         ListItem(BulletText(srclines'[Len(srclines')].line)))]_vars
    /\ [](cpc = "done" /\ AllBulletLines =>
            content_blocks =
              <<BulletList([i \in DOMAIN DescriptionLines |->
                              ListItem(BulletText(Strip(DescriptionLines[i])))])>>)

C9_Witness ==
    /\ cpc = "done"
    /\ AllBulletLines
    /\ Len(DescriptionLines) = 3
    /\ Len(content_blocks) = 1
    /\ content_blocks[1].type = "bulletList"
    /\ Len(content_blocks[1].content) = 3

\* the block type the if/elif chain makes of a line of kind k
BlockTypeOf(k) ==
    CASE k = "heading" -> "heading"
      [] k = "bullet" -> "bulletList"
      [] k = "ordered" -> "orderedList"
      [] k = "rule" -> "rule"
      [] OTHER -> "paragraph"

\* C10: the blocks are in the order of the source lines that opened them
\* (each block's first line comes after that of the block before it, and the
\* block has the type of that line); in particular a heading line directly
\* followed by a plain line of its section gives a heading block directly
\* followed by the paragraph block that starts with that line.
C10_BlocksInLineOrder ==
    /\ Len(block_line) = Len(content_blocks)
    /\ \A b \in 1..(Len(block_line) - 1) : block_line[b] < block_line[b + 1]
    /\ (cpc = "lines" /\ paragraph_content # <<>>) =>
          \A b \in DOMAIN block_line : block_line[b] < para_line
    /\ \A b \in DOMAIN block_line :
          block_line[b] > 0 =>
            content_blocks[b].type = BlockTypeOf(LineKind(srclines[block_line[b]].line))
    /\ cpc = "done" =>
          \A n \in 1..(Len(srclines) - 1) :
            (/\ srclines[n].line # <<>>
             /\ LineKind(srclines[n].line) = "heading"
             /\ srclines[n + 1].line # <<>>
             /\ LineKind(srclines[n + 1].line) = "plain"
             /\ srclines[n].sec = srclines[n + 1].sec)
              => \E b \in 1..(Len(content_blocks) - 1) :
                    /\ block_line[b] = n
                    /\ content_blocks[b] = Heading(StripChars(srclines[n].line, {"*"}))
                    /\ block_line[b + 1] = n + 1
                    /\ content_blocks[b + 1].type = "paragraph"
                    /\ content_blocks[b + 1].content[1] = TextRun(srclines[n + 1].line)

C10_Witness ==
    /\ cpc = "done"
    /\ description = <<"*", "a", "*", "nl", "b">>
    /\ content_blocks = <<Heading(<<"a">>), Paragraph(<<TextRun(<<"b">>)>>)>>

\* the actions and the function compute the same blocks
ParseDescriptionAgrees == cpc = "done" => content_blocks = ParseDescription(description)

\* every non-blank line is of one of the kinds
LinesAllOf(kinds) ==
    \A i \in DOMAIN DescriptionLines :
        Strip(DescriptionLines[i]) # <<>> => LineKind(Strip(DescriptionLines[i])) \in kinds

\* the plain-text reconstruction of a paragraph: its runs' texts concatenated
PlainText(block) == Concat([i \in DOMAIN block.content |-> block.content[i].text])

OneParagraph == Len(content_blocks) = 1 /\ content_blocks[1].type = "paragraph"

\* C11 as stated: for every input without heading, list and rule lines that
\* converts to one paragraph, converting the concatenation of the
\* paragraph's text runs gives one paragraph with the same text.
C11_ParagraphOnlyIdempotent ==
    (cpc = "done" /\ LinesAllOf({"em", "plain"}) /\ OneParagraph)
        => \E again \in {ParseDescription(PlainText(content_blocks[1]))} :
              /\ Len(again) = 1
              /\ again[1].type = "paragraph"
              /\ PlainText(again[1]) = PlainText(content_blocks[1])

\* C11 amended: for every input whose non-blank lines are all plain text
\* lines (no heading, list, rule or italic line) and that converts to one
\* paragraph, converting the concatenation of the paragraph's text runs
\* gives exactly the first conversion's blocks.
C11_PlainLinesIdempotent ==
    (cpc = "done" /\ LinesAllOf({"plain"}) /\ OneParagraph)
        => ParseDescription(PlainText(content_blocks[1])) = content_blocks

C11_Witness ==
    /\ cpc = "done"
    /\ description = <<"b", "nl", "b">>
    /\ content_blocks = <<Paragraph(<<TextRun(<<"b">>), TextRun(<<"nl">>), TextRun(<<"b">>)>>)>>
    /\ ParseDescription(PlainText(content_blocks[1])) = content_blocks

(***************************************************************************)
(* More claims about the Jira client, checked under SpecClient             *)
(***************************************************************************)

\* C12: every dict criar_tarefa or criar_subtask returns has exactly the
\* fields of one group: success true with key and url and no error/details,
\* or success false with error and details and no key/url.
C12_ExactlyOneFieldGroup ==
    result # NoResult =>
        \/ result.success /\ DOMAIN result = {"success", "key", "url"}
        \/ ~result.success /\ DOMAIN result = {"success", "error", "details"}

C12_Witness ==
    /\ pc = "done"
    /\ op = "criar_subtask"
    /\ Len(posts) = 2
    /\ result # NoResult
    /\ ~result.success
    /\ result.details = "err"
    /\ DOMAIN result = {"success", "error", "details"}

(***************************************************************************)
(* Claims about /create-task, checked under SpecHandler                    *)
(***************************************************************************)

FinalSent == responses # <<>> /\ responses[Len(responses)].kind = "final"

Ended == hpc \in {"done", "raised"}

SubtaskCalls == {i \in DOMAIN calls : calls[i].op = "criar_subtask"}

\* C13: the first create call of a request is the story's, every later one
\* is a sub-issue call made after the story's call returned success, the
\* k-th of them is for the k-th subtask of the plan (so the calls follow the
\* list order and no subtask is attempted twice) with the story's key as
\* parent, and when the final report is sent every subtask of the plan has
\* been attempted exactly once.
C13_StoryThenSubtasksInListOrder ==
    /\ calls # <<>> => calls[1].op = "criar_tarefa"
    /\ \A i \in 2..Len(calls) :
          /\ calls[i].op = "criar_subtask"
          /\ calls[1].outcome = "success"
          /\ calls[i].n = i - 1
          /\ HasGet(Items(subtasks_data)[i - 1])
          /\ calls[i].summary = SubtaskSummary(Items(subtasks_data)[i - 1], i - 1)
          /\ calls[i].parent = tracker[1].key
          /\ tracker[1].summary = StorySummary(tasks_data)
          /\ calls[i - 1].outcome # "raised"
    /\ FinalSent =>
          \A k \in DOMAIN Items(subtasks_data) :
              Cardinality({i \in SubtaskCalls : calls[i].n = k}) = 1

C13_Witness ==
    /\ FinalSent
    /\ subtasks_data = JList(<<Titled("t1"), Titled("t2"), Titled("t1")>>)
    /\ Len(calls) = 4
    /\ calls[3].outcome = "failure"
    /\ calls[4].summary = "t1"
    /\ calls[4].parent = story_key

SuccessCalls == {i \in SubtaskCalls : calls[i].outcome = "success"}

\* a sub-issue call has just returned a failure
SubtaskFailed ==
    /\ Len(calls') = Len(calls) + 1
    /\ calls'[Len(calls')].op = "criar_subtask"
    /\ calls'[Len(calls')].outcome = "failure"

\* C14: when a sub-issue call returns a failure the loop goes on to the next
\* subtask (the request neither ends nor skips one) and nothing created so
\* far is touched; no step deletes or changes an issue the tracker holds;
\* and the final report gives created/total with created the number of
\* sub-issue calls that returned success and total the length of the
\* subtasks list, every subtask having been attempted.
C14_FailureLeavesTheRestAttempted ==
    /\ [][SubtaskFailed =>
            /\ hpc' = "subtasks"
            /\ hidx' = hidx + 1
            /\ created_subtasks' = created_subtasks
            /\ tracker' = tracker]_vars
    /\ [][/\ Len(tracker') >= Len(tracker)
          /\ \A i \in DOMAIN tracker : tracker'[i] = tracker[i]]_vars
    /\ [](FinalSent =>
            /\ \A k \in DOMAIN Items(subtasks_data) : \E i \in SubtaskCalls : calls[i].n = k
            /\ responses[Len(responses)].created = Cardinality(SuccessCalls)
            /\ responses[Len(responses)].total = Len(Items(subtasks_data))
            /\ Len(responses[Len(responses)].list) = Cardinality(SuccessCalls))

C14_Witness ==
    /\ FinalSent
    /\ Len(Items(subtasks_data)) = 3
    /\ Len(calls) = 4
    /\ calls[2].outcome = "failure"
    /\ calls[3].outcome = "success"
    /\ calls[4].outcome = "success"
    /\ responses[Len(responses)].created = 2
    /\ responses[Len(responses)].total = 3
    /\ Len(tracker) = 3

(***************************************************************************)
(* Termination of the create calls, checked under SpecClientFair           *)
(***************************************************************************)

RECURSIVE SendsOf(_)
SendsOf(ps) == IF ps = <<>> THEN 0 ELSE Head(ps).sends + SendsOf(Tail(ps))

\* C15: whatever the tracker answers, every criar_tarefa and criar_subtask
\* call eventually is Succeeded or Failed, that is, has returned its success
\* or its failure result.
C15_ReachesSucceededOrFailed == <>(pc = "done" /\ result # NoResult)

\* what holds of C15: every call ends, by a return or by the escaping
\* exception, after at most RetryTotal + 1 sends per candidate type name,
\* and no send is made after it ended
C15_EndsWithinBoundedSends ==
    /\ <>(pc \in {"done", "raised"})
    /\ [](SendsOf(posts) <= (RetryTotal + 1) * Len(alternatives))
    /\ [][(pc = "done" \/ pc = "raised") => (posts' = posts /\ pc' = pc)]_vars

(***************************************************************************)
(* Claims about concurrent requests, checked under SpecShared              *)
(***************************************************************************)

\* C16: no step of any request changes the client's configured type name
\* or its list of candidate names; a step changes the locals (payload, loop
\* index, result) of one request only; every criar_subtask call sends the
\* configured type name first, whatever the other requests have observed;
\* and two calls of the same method that received the same answers have
\* sent the same type names and are at the same point with the same result.
C16_RequestsDoNotInterfere ==
    /\ [][subtask_type' = subtask_type /\ alternatives' = alternatives]_vars
    /\ [][\A t \in Threads : \A u \in Threads \ {t} :
            threads'[t] = threads[t] \/ threads'[u] = threads[u]]_vars
    /\ [](\A t \in Threads :
            (threads[t].op = "criar_subtask" /\ threads[t].sent # <<>>)
                => threads[t].sent[1] = subtask_type)
    /\ [](\A t \in Threads : \A u \in Threads :
            (threads[t].op = threads[u].op /\ threads[t].answers = threads[u].answers)
                => /\ threads[t].sent = threads[u].sent
                   /\ threads[t].pc = threads[u].pc
                   /\ threads[t].issuetype = threads[u].issuetype
                   /\ threads[t].result = threads[u].result)

C16_Witness ==
    /\ threads["r1"].op = "criar_subtask"
    /\ threads["r1"].pc = "post"
    /\ threads["r1"].idx = 2
    /\ threads["r1"].sent = <<"Sub-task">>
    /\ threads["r2"].op = "criar_subtask"
    /\ threads["r2"].pc = "done"
    /\ threads["r2"].sent = <<"Sub-task">>
    /\ threads["r2"].result = Success
    /\ alternatives = <<"Sub-task", "Subtask">>

(***************************************************************************)
(* More claims about the extractor, checked under SpecExtract              *)
(***************************************************************************)

\* C17: whenever the sanitized text is valid JSON, the extractor succeeds
\* with the value of the direct parse, and the direct parse is the only
\* attempt made.
C17_DirectParseWins ==
    (Returned /\ JsonLoads(raw).ok)
        => /\ ai_result.success
           /\ ai_result.data = JsonLoads(raw).val
           /\ tried = <<"direct">>

\* what holds of C17: the same for every JSON value but null
C17_HoldsButForNull ==
    (Returned /\ JsonLoads(raw).ok /\ JsonLoads(raw).val # JsonNull)
        => /\ ai_result.success
           /\ ai_result.data = JsonLoads(raw).val
           /\ tried = <<"direct">>

\* the slice from the first { to the last }, <<>> when there is none
FirstLastSlice(t) ==
    IF Find(t, "{") # 0 /\ RFind(t, "}") > Find(t, "{")
    THEN SubSeq(t, Find(t, "{"), RFind(t, "}"))
    ELSE <<>>

\* the three candidate texts of raw
Candidates(t) == {t, extract_braced_json(t).text, FirstLastSlice(t)}

\* C18: when none of the three candidate texts parses as JSON the extractor
\* returns the failure dict, with an error message and no data; it always
\* returns a dict; and a success dict carries the value parsed from one of
\* the three candidate texts.
C18_FailsOnlyWhenNoCandidateParses ==
    Returned =>
        /\ ai_result # NoAiResult
        /\ (\A c \in Candidates(raw) : ~JsonLoads(c).ok)
              => /\ ~ai_result.success
                 /\ DOMAIN ai_result = {"success", "error"}
                 /\ ai_result.error # ""
        /\ ai_result.success
              => /\ DOMAIN ai_result = {"success", "data"}
                 /\ \E c \in Candidates(raw) :
                       JsonLoads(c).ok /\ ai_result.data = JsonLoads(c).val

C18_Witness ==
    /\ Returned
    /\ tried = <<"direct", "scan", "fallback">>
    /\ segment.found
    /\ FirstLastSlice(raw) # <<>>
    /\ \A c \in Candidates(raw) : ~JsonLoads(c).ok
    /\ ~ai_result.success
    /\ DOMAIN ai_result = {"success", "error"}

\* the (1-based) index at which the last fence marker of t begins, 0 if none
LastFenceAt(t) ==
    IF \E k \in 1..(Len(t) - 2) : SubSeq(t, k, k + 2) = Fence
    THEN CHOOSE k \in 1..(Len(t) - 2) :
            /\ SubSeq(t, k, k + 2) = Fence
            /\ \A m \in (k + 1)..(Len(t) - 2) : SubSeq(t, m, m + 2) # Fence
    ELSE 0

\* t without its first line
AfterFirstLine(t) ==
    IF Find(t, "nl") = 0 THEN <<>> ELSE SubSeq(t, Find(t, "nl") + 1, Len(t))

\* the interior as C19 describes it: the first line dropped, and everything
\* from the last remaining fence marker onward
ClaimedInterior(t) ==
    Only({Strip(IF LastFenceAt(rest) = 0 THEN rest
                ELSE SubSeq(rest, 1, LastFenceAt(rest) - 1))
          : rest \in {AfterFirstLine(t)}})

\* C19: whenever the trimmed completion text begins with a fence marker,
\* remove_code_fences returns its interior: the text without its first line
\* and without everything from the last remaining fence marker onward.
C19_FenceStrippingKeepsInterior ==
    (Returned /\ StartsWith(Strip(content), Fence))
        => remove_code_fences(content) = ClaimedInterior(Strip(content))

\* what holds of C19: the same when the closing marker is on a line of its own
C19_HoldsForClosedBlocks ==
    (Returned /\ StartsWith(Strip(content), Fence) /\ fence_shape = "block")
        => remove_code_fences(content) = ClaimedInterior(Strip(content))

\* the scan's locals before it read its k-th character
ScanBefore(k) == IF k = 1 THEN ScanInit ELSE scan_trace[k - 1]

\* C20: at every step of the scan the depth is >= 0 and changes only on a
\* { or } read outside a string; a double quote read while the escape flag
\* is set leaves the scan inside the string; the escape flag is set by a
\* backslash that is not itself escaped, only inside a string, and the next
\* character clears it; a } read at depth 0 changes nothing.
C20_ScanStepInvariants ==
    \A k \in DOMAIN scan_trace :
        /\ scan_trace[k].depth >= 0
        /\ scan_trace[k].depth # ScanBefore(k).depth
              => (raw[k] \in {"{", "}"} /\ ~ScanBefore(k).in_str)
        /\ (raw[k] = "{" /\ ~ScanBefore(k).in_str)
              => scan_trace[k].depth = ScanBefore(k).depth + 1
        /\ (raw[k] = "}" /\ ~ScanBefore(k).in_str /\ ScanBefore(k).depth > 0)
              => scan_trace[k].depth = ScanBefore(k).depth - 1
        /\ (ScanBefore(k).in_str /\ ScanBefore(k).esc /\ raw[k] = "dq")
              => scan_trace[k].in_str
        /\ (ScanBefore(k).in_str /\ ~ScanBefore(k).esc /\ raw[k] = "dq")
              => ~scan_trace[k].in_str
        /\ (ScanBefore(k).in_str /\ ~ScanBefore(k).esc /\ raw[k] = "bs")
              => (scan_trace[k].esc /\ scan_trace[k].in_str)
        /\ scan_trace[k].esc => (ScanBefore(k).in_str /\ scan_trace[k].in_str)
        /\ ScanBefore(k).esc => ~scan_trace[k].esc
        /\ (raw[k] = "}" /\ ~ScanBefore(k).in_str /\ ScanBefore(k).depth = 0)
              => scan_trace[k] = ScanBefore(k)

C20_Witness ==
    /\ Returned
    /\ scan_trace # <<>>
    /\ \E k \in DOMAIN scan_trace :
          ScanBefore(k).esc /\ raw[k] = "dq" /\ scan_trace[k].in_str
    /\ \E k \in DOMAIN scan_trace :
          raw[k] = "}" /\ ~ScanBefore(k).in_str /\ ScanBefore(k).depth = 0
    /\ scan_trace[Len(scan_trace)].ret # 0
    /\ segment = [found |-> TRUE, text |-> inner]


(***************************************************************************)
(* More claims about the converter, checked under SpecConvert              *)
(***************************************************************************)

IsListLine(l) == l.line # <<>> /\ LineKind(l.line) \in {"bullet", "ordered"}

\* the block a list line's item was appended to: the last block opened at or
\* before that line
BlockOf(n) ==
    CHOOSE b \in DOMAIN block_line :
        /\ block_line[b] <= n
        /\ \A c \in DOMAIN block_line : block_line[c] <= n => c <= b

\* the lines n < m are list lines of one kind with no line of another section
\* and no non-blank line between them
ListNeighbours(n, m) ==
    /\ n < m
    /\ IsListLine(srclines[n])
    /\ IsListLine(srclines[m])
    /\ LineKind(srclines[n].line) = LineKind(srclines[m].line)
    /\ \A k \in (n + 1)..(m - 1) : srclines[k].line = <<>>

\* C21: two list lines of the same kind that are separated by a blank line
\* (they lie in different sections, with nothing else between them) end up in
\* two separate list blocks, and two list lines of the same kind on
\* consecutive lines of one section end up in the same list block.
C21_BlankLineClosesList ==
    cpc = "done" =>
        \A n, m \in DOMAIN srclines :
            ListNeighbours(n, m) =>
                /\ srclines[n].sec # srclines[m].sec => BlockOf(n) # BlockOf(m)
                /\ (srclines[n].sec = srclines[m].sec /\ m = n + 1)
                      => BlockOf(n) = BlockOf(m)

\* the half of C21 the code keeps: list lines of one kind on consecutive
\* lines of a section share their list block
C21_SameSectionSameList ==
    cpc = "done" =>
        \A n, m \in DOMAIN srclines :
            (ListNeighbours(n, m) /\ srclines[n].sec = srclines[m].sec /\ m = n + 1)
                => /\ BlockOf(n) = BlockOf(m)
                   /\ Len(content_blocks[BlockOf(n)].content) >= 2

\* two bullet lines with a blank line between them made one list of two items
C21_MergedAcrossBlankLine ==
    /\ cpc = "done"
    /\ description = <<"-", " ", "b", "nl", "nl", "-", " ", "b">>
    /\ content_blocks = <<BulletList(<<ListItem(<<"b">>), ListItem(<<"b">>)>>)>>


\* a bullet line without its leading marker: one character for the bullet
\* sign, two for "- " and "* "
MarkerRemoved(line) ==
    IF StartsWith(line, <<"bu">>) THEN SubSeq(line, 2, Len(line))
    ELSE SubSeq(line, 3, Len(line))

LastLine == srclines[Len(srclines)]

LastBlock == content_blocks[Len(content_blocks)]

\* C22: for every bullet line, the text of the list item appended for it is
\* the line with only its leading bullet marker removed and the rest trimmed
\* of surrounding whitespace; no other leading character is removed.
C22_OnlyMarkerRemoved ==
    (srclines # <<>> /\ IsBulletLine(LastLine)) =>
        /\ content_blocks # <<>>
        /\ LastBlock.type = "bulletList"
        /\ LastBlock.content[Len(LastBlock.content)]
              = ListItem(Strip(MarkerRemoved(LastLine.line)))

\* the bullet line "- -b" gave the item text "b"
C22_DashAfterMarkerLost ==
    /\ cpc = "done"
    /\ description = <<"-", " ", "-", "b">>
    /\ content_blocks = <<BulletList(<<ListItem(<<"b">>)>>)>>


(***************************************************************************)
(* Claims about the payloads of the Jira client, checked under SpecClient  *)
(***************************************************************************)

\* a payload with its issue type name blanked
ButTypeName(p) == [p EXCEPT !.issuetype.name = ""]

\* C23: across the session.post calls of one criar_subtask call, the payload
\* has the same project key, parent key, summary and description document
\* in every send, only the issue type name differs, and the type name of the
\* k-th send is the k-th name of the candidate list.
C23_OnlyTypeNameSwapped ==
    op = "criar_subtask" =>
        /\ Len(sent_json) = Len(posts)
        /\ Len(sent_json) <= Len(alternatives)
        /\ \A k \in DOMAIN sent_json :
              /\ DOMAIN sent_json[k] = {"project", "parent", "summary", "description", "issuetype"}
              /\ sent_json[k].issuetype.name = alternatives[k]
              /\ posts[k].type = alternatives[k]
              /\ ButTypeName(sent_json[k]) = ButTypeName(sent_json[1])
              /\ sent_json[k].project.key = ProjectKey
              /\ sent_json[k].parent.key \in ParentKeys

\* a criar_subtask call that posted the configured name, then the alternate
\* name with the same other fields, and succeeded
C23_Witness ==
    /\ op = "criar_subtask"
    /\ pc = "done"
    /\ result = Success
    /\ Len(sent_json) = 2
    /\ sent_json[1].issuetype.name = "Sub-task"
    /\ sent_json[2].issuetype.name = "Subtask"
    /\ sent_json[1].parent.key = "PROJ-2"
    /\ sent_json[2] = WithTypeName(sent_json[1], "Subtask")
    /\ posts[1].last.status = 400


\* criar_tarefa has been answered with a 4xx status other than 429
TarefaGotClientError ==
    /\ op = "criar_tarefa"
    /\ posts[1].sends >= 1
    /\ posts[1].last.status \in (400..499) \ {429}

\* the call neither changed the type name nor posted a second time
TypeNameKept ==
    /\ Len(posts) = 1
    /\ Len(sent_json) = 1
    /\ payload = sent_json[1]
    /\ payload.issuetype.name = issuetype
    /\ posts[1].type = issuetype

\* C24 as stated: when the tracker answers a send of criar_tarefa with a 4xx
\* status other than 429 (400 included), exactly one send has been made, the
\* issue type name was never changed, and a failure result is returned.
C24_ClientErrorAfterOneSend ==
    TarefaGotClientError =>
        /\ posts[1].sends = 1
        /\ TypeNameKept
        /\ pc = "done"
        /\ result = Failure("HTTPError", "err")

\* C24 amended: when the tracker answers a send of criar_tarefa with a 4xx
\* status other than 429 (400 included), that send is the call's last (the
\* only sends before it are the re-sends the retry policy made after
\* transient answers, none when it answers the first send), the issue type
\* name was never changed, and a failure result is returned.
C24_ClientErrorEndsTheCall ==
    TarefaGotClientError =>
        /\ posts[1].sends = (RetryTotal - total) + 1
        /\ posts[1].final = "response"
        /\ TypeNameKept
        /\ pc = "done"
        /\ result = Failure("HTTPError", "err")

\* criar_tarefa answered 400 on its first send: one send, a failure returned
C24_Witness ==
    /\ op = "criar_tarefa"
    /\ pc = "done"
    /\ posts[1].sends = 1
    /\ posts[1].last.status = 400
    /\ total = RetryTotal
    /\ issuetype = "Story"
    /\ sent_json = <<TarefaPayload("s1", "d1", "Story")>>
    /\ result = Failure("HTTPError", "err")


(***************************************************************************)
(* Claims about the converter's result, checked under SpecConvert          *)
(***************************************************************************)

\* what _parse_description returned has at least one block, and is a single
\* paragraph of one text run when no line made a block
NeverEmpty ==
    /\ Len(content_blocks) >= 1
    /\ block_line = <<0>> =>
          /\ Len(content_blocks) = 1
          /\ content_blocks[1].type = "paragraph"
          /\ Len(content_blocks[1].content) = 1

\* C25: _parse_description is total and its result is never empty: for every
\* input string no exception leaves it, and it returns at least one block,
\* falling back to a single paragraph when no line produced a block.
C25_TotalAndNeverEmpty ==
    /\ cpc # "raised"
    /\ cpc = "done" => NeverEmpty

\* the half of C25 the code keeps: whenever it returns, it returns at least
\* one block
C25_NeverEmptyWhenItReturns == cpc = "done" => NeverEmpty

\* the ordered-list line "s2. a" (superscript two) made int() raise
C25_SuperscriptDigitRaises ==
    /\ cpc = "raised"
    /\ description = <<"s2", ".", " ", "a">>
    /\ ParseDescription(description) = Raised


\* the texts of the runs of a sequence of runs
RunTexts(runs) == {runs[i].text : i \in DOMAIN runs}

\* the texts of all text runs of a block
BlockTexts(block) ==
    CASE block.type \in {"paragraph", "heading"} -> RunTexts(block.content)
      [] block.type \in {"bulletList", "orderedList"} ->
            UNION {RunTexts(block.content[i].content[1].content) : i \in DOMAIN block.content}
      [] OTHER -> {}

\* C27: every text run of the Document _parse_description makes of a
\* non-empty description has a non-empty text, whether it is a heading's, a
\* list item's, an italic or a plain run.
C27_NoEmptyTextRun ==
    (cpc = "done" /\ description # <<>>) =>
        \A b \in DOMAIN content_blocks : <<>> \notin BlockTexts(content_blocks[b])

\* the line "***" made a heading whose text run is empty
C27_StarsGiveEmptyHeading ==
    /\ cpc = "done"
    /\ description = <<"*", "*", "*">>
    /\ content_blocks = <<Heading(<<>>)>>

(***************************************************************************)
(* Claims about the stages of /create-task, checked under SpecHandler      *)
(***************************************************************************)

\* the extractor returned a success
AiSucceeded == tasks_data # JMissing

\* the exception that ended the request came out of a create call
CreateCallRaised == calls # <<>> /\ calls[Len(calls)].outcome = "raised"

LastResponse == responses[Len(responses)]

\* the create calls made so far carry the plan's titles, with the defaults
\* where a title is missing
SummariesWithDefaults ==
    \A i \in DOMAIN calls :
        IF i = 1
        THEN calls[i].summary \in {"story", "AI Generated Story"}
        ELSE calls[i].summary \in Titles \cup {"Subtask 1", "Subtask 2", "Subtask 3", "Subtask 4"}

\* C26: for every JSON value the extractor returns as a success (an object
\* with any of the expected fields missing, or a value of any other shape),
\* the handler builds the story and the subtasks with the defaults for what
\* is missing and ends by reporting a result; no exception leaves the plan
\* assembly.
C26_AnySuccessValueIsAssembled ==
    AiSucceeded =>
        /\ SummariesWithDefaults
        /\ hpc = "raised" => CreateCallRaised
        /\ hpc = "done" => LastResponse.kind \in {"story_failed", "final"}

\* the data is a dict whose story, if present, is a dict and whose subtasks,
\* if present, is a list of dicts
WellShaped(data) ==
    /\ HasGet(data)
    /\ HasGet(StoryData(data))
    /\ \E st \in {Get(data, "subtasks", JList(<<>>))} :
          /\ st.kind = "list"
          /\ \A i \in DOMAIN st.items : HasGet(st.items[i])

\* the part of C26 the code keeps: dicts, whatever fields they lack
C26_DictsAreAssembled ==
    (AiSucceeded /\ WellShaped(tasks_data)) =>
        /\ SummariesWithDefaults
        /\ hpc = "raised" => CreateCallRaised
        /\ hpc = "done" => LastResponse.kind \in {"story_failed", "final"}

\* the empty object was assembled with defaults and reported
C26_EmptyObjectReported ==
    /\ tasks_data = TasksDict({}, JMissing, JMissing)
    /\ hpc = "done"
    /\ LastResponse = FinalMessage(1, <<>>, <<>>)
    /\ calls[1].summary = "AI Generated Story"

\* a JSON array returned as a success ended the request with an exception
\* before any create call
C26_ArrayRaises ==
    /\ tasks_data = JList(<<>>)
    /\ hpc = "raised"
    /\ calls = <<>>
    /\ responses = <<Message("analyzing")>>


\* the kinds of the messages that report an error
ErrorKinds == {"usage", "ai_failed", "story_failed"}

ErrorsReported == {i \in DOMAIN responses : responses[i].kind \in ErrorKinds}

\* the request was answered: the command has been read
Answered == responses # <<>>

\* generate_tasks_from_prompt returned a failure
AiFailed == \E i \in DOMAIN responses : responses[i].kind = "ai_failed"

\* the story's create call returned a failure
StoryFailed == calls # <<>> /\ calls[1].outcome = "failure"

\* C28: each stage of a /create-task request gates the next.  With an empty
\* command text no call is made to the AI nor to the tracker; when the AI's
\* result is a failure no call is made to the tracker; when the story's
\* create call returns a failure no sub-issue call is made; and in each of
\* the three cases exactly one error message has been reported and the
\* handler has returned.
C28_EachStageGatesTheNext ==
    /\ (Answered /\ Strip(command_text) = <<>>) =>
          /\ ai_calls = <<>>
          /\ calls = <<>>
          /\ tracker = <<>>
          /\ responses = <<Message("usage")>>
          /\ hpc = "done"
    /\ AiFailed =>
          /\ ai_calls = <<Strip(command_text)>>
          /\ calls = <<>>
          /\ tracker = <<>>
          /\ responses = <<Message("analyzing"), Message("ai_failed")>>
          /\ hpc = "done"
    /\ StoryFailed =>
          /\ Len(calls) = 1
          /\ calls[1].op = "criar_tarefa"
          /\ tracker = <<>>
          /\ responses = <<Message("analyzing"), Message("creating_story"),
                           Message("story_failed")>>
          /\ hpc = "done"
    /\ (Answered /\ (Strip(command_text) = <<>> \/ AiFailed \/ StoryFailed))
          => Cardinality(ErrorsReported) = 1
    /\ Cardinality(ErrorsReported) <= 1
    /\ calls # <<>> => Len(ai_calls) = 1

\* the three gated endings
C28_Witness ==
    /\ hpc = "done"
    /\ command_text = <<" ", "x">>
    /\ ai_calls = <<<<"x">>>>
    /\ StoryFailed
    /\ Len(Items(subtasks_data)) = 2
    /\ Len(calls) = 1

C28_WitnessBlankText ==
    /\ hpc = "done"
    /\ command_text = <<" ">>
    /\ responses = <<Message("usage")>>

C28_WitnessAiFailed ==
    /\ hpc = "done"
    /\ AiFailed
    /\ calls = <<>>

=============================================================================
